---- MODULE Spec2Model ----
(***************************************************************************)
(* Temporal conflict detection and URN resolution of the Normattiva        *)
(* knowledge base.  The repository holds two snapshots of the command-line *)
(* layer, src/app/cli.py ("app") and src/normattiva_kb/app/cli.py ("kb");  *)
(* both are modelled where they differ.                                    *)
(*                                                                         *)
(* Dates are the integers DateMin..DateMax, Null stands for Python's None. *)
(* Node ids (sha256 hex strings compared lexicographically) are integers   *)
(* compared with <=.                                                       *)
(***************************************************************************)
EXTENDS Integers, Sequences, FiniteSets, TLC

VARIABLES
    input,       \* the node sequence handed to detect_temporal_conflicts
    conflicts,   \* the list it returned
    normalized,  \* the candidates after _normalize_candidate
    raised,      \* an exception left the current operation
    pc,          \* position of the detection pipeline
    build,       \* the snapshot of cli.py that ran last: "app", "kb" or "none"
    nodes_tbl,   \* table nodes: the set of stored Node rows
    events,      \* table conflict_events: sequence of committed rows
    created,     \* cmd_detect_conflicts: events created by the last run
    runs,        \* number of cmd_detect_conflicts runs so far
    nulls_first, \* the database sorts NULL before every value (SQLite) or after (PostgreSQL)
    match_text,  \* UrnResolver.resolve: the reference text
    raw_snippet, \* UrnResolver.resolve: the text around it
    document_urn,\* UrnResolver.document_urn: the citing document, or None
    result,      \* what resolve returned
    urn_args,    \* _build_urn: its five arguments
    urn_built,   \* _build_urn: what it returned
    rpc,         \* position of the resolver
    resolvers,   \* the UrnResolver instances created so far: their document_urn
    lru,         \* the lru_cache of UrnResolver.resolve, most recent entry last
    calls,       \* the resolve calls that returned: receiver, arguments, result
    raw_files,   \* table raw_files: per raw_id the parsed content, status and error
    versions,    \* table document_versions: the committed rows
    node_rows,   \* table nodes as cmd_parse fills it: the committed rows
    computed,    \* every node_id cmd_parse computed, with what it was computed for
    autobegun,   \* Session.begin() finds the transaction the first query began
    hs_path,     \* _compute_hierarchy_string: the canonical path handed in
    hs_result,   \* _compute_hierarchy_string: what it returned
    hs_pc,       \* position of the breadcrumb computation
    tree,        \* the XML document handed to a parser: its elements in document order
    parsed,      \* the parse that ran: mode, lost tails and the node list
    extracted_tbl, \* table references_extracted: the rows in the order of the query
    resolved_tbl,  \* table references_resolved: the committed rows
    resolve_log,   \* per run of cmd_resolve_references: rows inserted, rows updated, failure
    raw_tbl,     \* table raw_files as upsert_raw_file fills it: the rows by raw_id
    upserts,     \* the upsert_raw_file calls so far: the data and the row returned
    ref_text,    \* extract_references: the text handed in
    candidates   \* extract_references: the list it returned

detVars == <<input, conflicts, normalized, raised, pc>>
dbVars == <<nodes_tbl, events, created, runs, nulls_first>>
resVars == <<match_text, raw_snippet, document_urn, result, urn_args, urn_built, rpc>>
vars == <<input, conflicts, normalized, raised, pc, build,
          nodes_tbl, events, created, runs, nulls_first,
          match_text, raw_snippet, document_urn, result, urn_args, urn_built, rpc,
          resolvers, lru, calls,
          raw_files, versions, node_rows, computed, autobegun,
          hs_path, hs_result, hs_pc,
          tree, parsed,
          extracted_tbl, resolved_tbl, resolve_log, raw_tbl, upserts, ref_text, candidates>>
cacheVars == <<resolvers, lru, calls>>
ingestVars == <<raw_files, versions, node_rows, computed, autobegun>>
hierVars == <<hs_path, hs_result, hs_pc>>
parseVars == <<tree, parsed>>
refVars == <<extracted_tbl, resolved_tbl, resolve_log>>
rawVars == <<raw_tbl, upserts>>
extractVars == <<ref_text, candidates>>
lateVars == <<refVars, rawVars, extractVars>>
extVars == <<cacheVars, ingestVars, hierVars, parseVars, lateVars>>
\* what the actions of one subsystem leave alone
oldVars == <<detVars, dbVars, resVars>>
notCache == <<oldVars, ingestVars, hierVars, parseVars, lateVars>>
notIngest == <<oldVars, cacheVars, hierVars, parseVars, lateVars>>
notHier == <<oldVars, build, cacheVars, ingestVars, parseVars, lateVars>>
notParse == <<oldVars, cacheVars, ingestVars, hierVars, lateVars>>

----------------------------------------------------------------------------
(* Bounds *)

MaxLen == 3        \* nodes in one input sequence, rows in table nodes
MaxDate == 4       \* the calendar is DateMin..MaxDate
MaxShortDate == 2  \* dates used by the three-node inputs and by the stored rows
MaxRuns == 2       \* runs of one command (cmd_detect_conflicts, cmd_resolve_references)
MaxWords == 2      \* phrases in one match_text
MaxYearLen == 4    \* digits of the year of the citation "l. 40/<year>"
MaxResolvers == 2  \* UrnResolver instances alive at once
MaxCalls == 3      \* resolve calls in one run
MaxCache == 2      \* entries the lru_cache keeps (maxsize, scaled down)
MaxFiles == 2      \* raw files waiting for cmd_parse
MaxNodes == 2      \* nodes one parse returns to cmd_parse
MaxSegments == 3   \* segments of a canonical path
MaxElems == 3      \* elements of one XML document
MaxDepth == 4      \* elements of one fragment of the legacy dialect
\* calls of upsert_raw_file in one run of the model
MaxUpserts == 3
\* rows of references_extracted
MaxRefs == 3
\* phrases of one text handed to extract_references
MaxPhrases == 3

----------------------------------------------------------------------------
(* Data *)

Null == 0
DateMin == 1
DateMax == MaxDate
Dates == DateMin..DateMax
IdleCache ==
    /\ resolvers = <<>>
    /\ lru = <<>>
    /\ calls = {}

IdleIngest ==
    /\ raw_files = <<>>
    /\ versions = {}
    /\ node_rows = {}
    /\ computed = {}
    /\ autobegun = FALSE

IdleHier ==
    /\ hs_path = <<>>
    /\ hs_result = <<>>
    /\ hs_pc = "idle"

NoParse == [mode |-> "none", seen |-> {}, nodes |-> <<>>]
IdleParse ==
    /\ tree = <<>>
    /\ parsed = NoParse

\* candidates before extract_references has run
NoCandidates == <<[pass |-> "none"]>>
IdleRefs == extracted_tbl = <<>> /\ resolved_tbl = <<>> /\ resolve_log = <<>>
IdleRaw == raw_tbl = <<>> /\ upserts = <<>>
IdleExtract == ref_text = <<>> /\ candidates = NoCandidates
IdleLate == IdleRefs /\ IdleRaw /\ IdleExtract

IdleExt == IdleCache /\ IdleIngest /\ IdleHier /\ IdleParse /\ IdleLate

OptDates == {Null} \cup Dates
ShortOptDates == {Null} \cup (DateMin..MaxShortDate)

NoKey == <<"None", "None">>
GroupKeys == {<<"d1", "art:5">>, <<"d1", "art:6">>, <<"d2", "art:5">>}

Node(id, key, vf, vt, icl) ==
    [node_id |-> id, doc_id |-> key[1], canonical_path |-> key[2], version_id |-> id,
     valid_from |-> vf, valid_to |-> vt, is_current_law |-> icl]

ConflictCandidate(doc, path, ida, idb, va, vb, vfa, vta, vfb, vtb, sev) ==
    [doc_id |-> doc, canonical_path |-> path, node_id_a |-> ida, node_id_b |-> idb,
     version_id_a |-> va, version_id_b |-> vb,
     valid_from_a |-> vfa, valid_to_a |-> vta, valid_from_b |-> vfb, valid_to_b |-> vtb,
     severity |-> sev]

\* `d or dt.date.min`, `d or dt.date.max`: a date is never falsy, None is
OrMin(d) == IF d = Null THEN DateMin ELSE d
OrMax(d) == IF d = Null THEN DateMax ELSE d

----------------------------------------------------------------------------
(* conflict_detector.py *)

_ranges_overlap(start_a, end_a, start_b, end_b) ==
    LET start_a_val == OrMin(start_a)
        end_a_val == OrMax(end_a)
        start_b_val == OrMin(start_b)
        end_b_val == OrMax(end_b)
    IN  start_a_val <= end_b_val /\ start_b_val <= end_a_val

\* mutant: `or` in place of `and` in the current-law check
_severity_either_current(node_a, node_b) ==
    IF node_a.is_current_law \/ node_b.is_current_law THEN "critical"
    ELSE IF node_a.valid_to = Null /\ node_b.valid_to = Null THEN "critical"
    ELSE "warning"

\* mutant: the two checks collapsed into the current-law check alone
_severity_flag_only(node_a, node_b) ==
    IF node_a.is_current_law /\ node_b.is_current_law THEN "critical" ELSE "warning"

_severity_for_overlap(node_a, node_b) ==
    IF node_a.is_current_law /\ node_b.is_current_law THEN "critical"
    ELSE IF node_a.valid_to = Null /\ node_b.valid_to = Null THEN "critical"
    ELSE "warning"

\* mutant: the active list is kept across a change of group
ResetActive_never(node, current, active) == active

\* line 32-35: the active list survives only while the group key stays the same
ResetActive(node, current, active) ==
    IF <<node.doc_id, node.canonical_path>> # current THEN <<>> ELSE active

\* mutant: an entry ending on the day the incoming node starts is dropped too
Evict_strict(active, node_start) ==
    SelectSeq(active, LAMBDA e : e.end > node_start)

\* line 40: entries that ended before the incoming node starts are dropped
Evict(active, node_start) ==
    SelectSeq(active, LAMBDA e : e.end >= node_start)

\* lines 42-64: one candidate per surviving active entry that overlaps the node
EmitFor(active, node) ==
    LET hits == SelectSeq(active, LAMBDA e :
                    _ranges_overlap(e.node.valid_from, e.node.valid_to,
                                    node.valid_from, node.valid_to))
    IN  [k \in 1..Len(hits) |->
            ConflictCandidate(node.doc_id, node.canonical_path,
                              hits[k].node.node_id, node.node_id,
                              hits[k].node.version_id, node.version_id,
                              hits[k].node.valid_from, hits[k].node.valid_to,
                              node.valid_from, node.valid_to,
                              _severity_for_overlap(hits[k].node, node))]

RECURSIVE DetectLoop(_, _, _, _, _)
DetectLoop(nodes, i, current, active, out) ==
    IF i > Len(nodes) THEN out
    ELSE LET node == nodes[i]
             act0 == ResetActive(node, current, active)
             node_start == OrMin(node.valid_from)
             node_end == OrMax(node.valid_to)
             act1 == Evict(act0, node_start)
         IN  DetectLoop(nodes, i + 1, <<node.doc_id, node.canonical_path>>,
                        Append(act1, [end |-> node_end, node |-> node]),
                        out \o EmitFor(act1, node))

detect_temporal_conflicts(nodes) == DetectLoop(nodes, 1, NoKey, <<>>, <<>>)

----------------------------------------------------------------------------
(* cli.py: _normalize_candidate, both snapshots *)

\* src/normattiva_kb/app/cli.py: the swapped candidate carries all eleven fields
_normalize_candidate_kb(c) ==
    IF c.node_id_a <= c.node_id_b THEN c
    ELSE ConflictCandidate(c.doc_id, c.canonical_path, c.node_id_b, c.node_id_a,
                           c.version_id_b, c.version_id_a,
                           c.valid_from_b, c.valid_to_b, c.valid_from_a, c.valid_to_a,
                           c.severity)

\* src/app/cli.py: the swap builds ConflictCandidate without its four required
\* valid_* fields, which makes the dataclass constructor raise TypeError
NormalizeRaises_app(c) == ~(c.node_id_a <= c.node_id_b)
_normalize_candidate_app(c) == c

NormalizeRaises(b, c) == b = "app" /\ NormalizeRaises_app(c)
_normalize_candidate(b, c) ==
    IF b = "app" THEN _normalize_candidate_app(c) ELSE _normalize_candidate_kb(c)

AnyRaises(b, cands) == \E k \in 1..Len(cands) : NormalizeRaises(b, cands[k])
NormalizeAll(b, cands) == [k \in 1..Len(cands) |-> _normalize_candidate(b, cands[k])]

----------------------------------------------------------------------------
(* Pipeline: detect_temporal_conflicts on an arbitrary node sequence *)

\* pairwise distinct ids: ascending along the sequence, and for one or two nodes
\* descending as well
IdOrders(n) ==
    IF n <= 2 THEN {[k \in 1..n |-> k], [k \in 1..n |-> n + 1 - k]}
    ELSE {[k \in 1..n |-> k]}

NodeSeqs(n, D) ==
    {[k \in 1..n |-> Node(ids[k], keys[k], vfs[k], vts[k], icls[k])] :
        ids \in IdOrders(n), keys \in [1..n -> GroupKeys],
        vfs \in [1..n -> D], vts \in [1..n -> D],
        icls \in [1..n -> BOOLEAN]}

IdleResolver ==
    /\ match_text = <<>>
    /\ raw_snippet = <<>>
    /\ document_urn = <<>>
    /\ result = <<>>
    /\ urn_args = <<>>
    /\ urn_built = <<>>
    /\ rpc = "idle"

InitDb ==
    /\ nodes_tbl = {}
    /\ events = <<>>
    /\ created = 0
    /\ runs = 0
    /\ nulls_first = TRUE

\* any node sequence: up to MaxLen nodes over the short calendar, or two nodes
\* over the whole calendar
InitDetect ==
    /\ \/ \E n \in 0..MaxLen : input \in NodeSeqs(n, ShortOptDates)
       \/ input \in NodeSeqs(2, OptDates)
    /\ conflicts = <<>>
    /\ normalized = <<>>
    /\ raised = FALSE
    /\ pc = "start"
    /\ build = "none"
    /\ InitDb
    /\ IdleResolver
    /\ IdleExt

Detect ==
    /\ pc = "start"
    /\ conflicts' = detect_temporal_conflicts(input)
    /\ pc' = "detected"
    /\ UNCHANGED <<input, normalized, raised, build, dbVars, resVars, extVars>>

Normalize(b) ==
    /\ pc = "detected"
    /\ build' = b
    /\ raised' = AnyRaises(b, conflicts)
    /\ normalized' = IF AnyRaises(b, conflicts) THEN <<>> ELSE NormalizeAll(b, conflicts)
    /\ pc' = "normalized"
    /\ UNCHANGED <<input, conflicts, dbVars, resVars, extVars>>

NormalizeApp == Normalize("app")
NormalizeKb == Normalize("kb")

NextDetect == Detect \/ NormalizeApp \/ NormalizeKb

SpecDetect == InitDetect /\ [][NextDetect]_vars

----------------------------------------------------------------------------
(* cli.py: cmd_detect_conflicts, both snapshots *)

\* lexicographic order of the strings used as doc_id and canonical_path
RankDoc(d) == IF d = "d1" THEN 1 ELSE 2
RankPath(p) == IF p = "art:5" THEN 1 ELSE 2

\* ORDER BY ... valid_from ASC: where NULL sorts is the database's choice
RankFrom(vf, nf) == IF vf # Null THEN vf ELSE IF nf THEN DateMin - 1 ELSE DateMax + 1

\* kb: order_by(Node.doc_id, Node.canonical_path, Node.valid_from)
RowLeq_kb(a, b, nf) ==
    \/ RankDoc(a.doc_id) < RankDoc(b.doc_id)
    \/ /\ a.doc_id = b.doc_id
       /\ \/ RankPath(a.canonical_path) < RankPath(b.canonical_path)
          \/ /\ a.canonical_path = b.canonical_path
             /\ RankFrom(a.valid_from, nf) <= RankFrom(b.valid_from, nf)

\* app: order_by(Node.doc_id, Node.canonical_path)
RowLeq_app(a, b, nf) ==
    \/ RankDoc(a.doc_id) < RankDoc(b.doc_id)
    \/ /\ a.doc_id = b.doc_id
       /\ RankPath(a.canonical_path) <= RankPath(b.canonical_path)

RowLeq(b, x, y, nf) == IF b = "app" THEN RowLeq_app(x, y, nf) ELSE RowLeq_kb(x, y, nf)

Arrangements(S) ==
    {s \in [1..Cardinality(S) -> S] : \A i, j \in 1..Cardinality(S) : i # j => s[i] # s[j]}

\* the row sequences the query may deliver: rows that tie under ORDER BY come in
\* an order SQL leaves unspecified
QueryOrders(b, rows, nf) ==
    {s \in Arrangements(rows) :
        \A i, j \in 1..Len(s) : i < j => RowLeq(b, s[i], s[j], nf)}

\* the row session.add stores; the app snapshot leaves the valid_* columns unset
ConflictEvent(b, c) ==
    [doc_id |-> c.doc_id, canonical_path |-> c.canonical_path,
     node_id_a |-> c.node_id_a, node_id_b |-> c.node_id_b,
     version_id_a |-> c.version_id_a, version_id_b |-> c.version_id_b,
     valid_from_a |-> IF b = "app" THEN Null ELSE c.valid_from_a,
     valid_to_a |-> IF b = "app" THEN Null ELSE c.valid_to_a,
     valid_from_b |-> IF b = "app" THEN Null ELSE c.valid_from_b,
     valid_to_b |-> IF b = "app" THEN Null ELSE c.valid_to_b,
     severity |-> c.severity, status |-> "pending"]

\* the existence query: SessionLocal has autoflush=False, so it sees committed
\* rows only
ExistingEvent(stored, c) ==
    \E k \in 1..Len(stored) :
        stored[k].node_id_a = c.node_id_a /\ stored[k].node_id_b = c.node_id_b

NewEvents(b, stored, norm) ==
    LET fresh == SelectSeq(norm, LAMBDA c : ~ExistingEvent(stored, c))
    IN  [k \in 1..Len(fresh) |-> ConflictEvent(b, fresh[k])]

\* rows as the parse command stores them (kb: validity copied from the version,
\* is_current_law = (valid_to is None); app: the valid_* columns are never set)
StoredRows(b, n) ==
    IF b = "kb"
    THEN {{Node(k, keys[k], vfs[k], vts[k], vts[k] = Null) : k \in 1..n} :
             keys \in [1..n -> GroupKeys],
             vfs \in [1..n -> ShortOptDates], vts \in [1..n -> ShortOptDates]}
    ELSE {{Node(k, keys[k], Null, Null, icls[k]) : k \in 1..n} :
             keys \in [1..n -> GroupKeys], icls \in [1..n -> BOOLEAN]}

InitConflicts ==
    /\ build \in {"app", "kb"}
    /\ \E n \in 0..MaxLen : nodes_tbl \in StoredRows(build, n)
    /\ nulls_first \in BOOLEAN
    /\ events = <<>>
    /\ created = 0
    /\ runs = 0
    /\ input = <<>>
    /\ conflicts = <<>>
    /\ normalized = <<>>
    /\ raised = FALSE
    /\ pc = "idle"
    /\ IdleResolver
    /\ IdleExt

\* one run of cmd_detect_conflicts: query, detect, normalise, store, commit.
\* An exception leaves the `with SessionLocal()` block before session.commit(),
\* so nothing the run added is stored.
cmd_detect_conflicts(b) ==
    /\ build = b
    /\ runs < MaxRuns
    /\ \E order \in QueryOrders(b, nodes_tbl, nulls_first) :
          LET cands == detect_temporal_conflicts(order)
              fails == AnyRaises(b, cands)
              norm == NormalizeAll(b, cands)
              new == NewEvents(b, events, norm)
          IN  /\ input' = order
              /\ conflicts' = cands
              /\ raised' = fails
              /\ normalized' = IF fails THEN <<>> ELSE norm
              /\ events' = IF fails THEN events ELSE events \o new
              /\ created' = IF fails THEN 0 ELSE Len(new)
              /\ pc' = IF fails THEN "failed" ELSE "committed"
    /\ runs' = runs + 1
    /\ UNCHANGED <<build, nodes_tbl, nulls_first, resVars, extVars>>

DetectConflictsApp == cmd_detect_conflicts("app")
DetectConflictsKb == cmd_detect_conflicts("kb")

NextConflicts == DetectConflictsApp \/ DetectConflictsKb

SpecConflicts == InitConflicts /\ [][NextConflicts]_vars

----------------------------------------------------------------------------
(* Text.  A Python string is a sequence of atoms; an atom stands for the     *)
(* characters written in it ("l." is the two characters l and .).  Digits    *)
(* are always atoms of one character, so two equal strings are equal         *)
(* sequences.  None_ stands for Python's None, <<>> for the empty string.    *)

None_ == <<"None">>
Truthy(x) == x # None_ /\ x # <<>>

DigitAtoms == {"0", "1", "2", "3", "4", "5", "6", "7", "8", "9"}
\* the alternatives of group 1 of DYNAMIC_LAW_PATTERN (case-insensitive)
TypeAtoms == {"legge", "l.", "d.lgs.", "decreto legislativo", "d.l.", "decreto legge", "d.p.r."}
\* atoms made of letters and hyphens only: what [a-z-]* can absorb
AlphaHyphenAtoms == {"legge", "del", "TUIR", "x", "a", "-bis", "comma", "lettera", "articolo",
                     "e", "successive", "modificazioni", "Statuto", "contribuente"}
\* atoms whose last character is not a word character (\w)
NonWordEnd == {"l.", "d.lgs.", "d.l.", "d.p.r.", "urn:", "art.", "n.", " ", "/", ","}
\* atoms whose first character is not a word character
NonWordStart == {" ", "/", ",", "-bis"}

IsDigit(a) == a \in DigitAtoms
LastIsWord(a) == a \notin NonWordEnd
FirstIsWord(a) == a \notin NonWordStart

DigitVal(d) ==
    CASE d = "0" -> 0 [] d = "1" -> 1 [] d = "2" -> 2 [] d = "3" -> 3 [] d = "4" -> 4
      [] d = "5" -> 5 [] d = "6" -> 6 [] d = "7" -> 7 [] d = "8" -> 8 [] d = "9" -> 9

\* number of characters of an atom that is not a digit
CharLen(a) ==
    CASE a \in {" ", "/", ",", "a", "x", "e", "d", "p", "r", "\\"} -> 1
      [] a \in {"l.", "n."} -> 2
      [] a \in {"del", "DPR"} -> 3
      [] a \in {"d.l.", "urn:", "art.", "TUIR", "-bis"} -> 4
      [] a \in {"legge", "comma"} -> 5
      [] a \in {"d.lgs.", "d.p.r."} -> 6
      [] a \in {"lettera", "Statuto"} -> 7
      [] a \in {"articolo", "abrogato"} -> 8
      [] a = "successive" -> 10
      [] a = "contribuente" -> 12
      [] a = "in deroga a" -> 11
      [] a \in {"decreto legge", "modificazioni", "modificato da"} -> 13
      [] a = "decreto legislativo" -> 19
      [] a = "Ix204" -> 204

RECURSIVE LStrip(_)
LStrip(s) == IF s # <<>> /\ Head(s) = " " THEN LStrip(Tail(s)) ELSE s
RECURSIVE RStrip(_)
RStrip(s) == IF s # <<>> /\ s[Len(s)] = " " THEN RStrip(SubSeq(s, 1, Len(s) - 1)) ELSE s
\* str.strip()
Strip(s) == RStrip(LStrip(s))

RECURSIVE TokenEnd(_, _)
TokenEnd(s, k) == IF k < Len(s) /\ s[k + 1] # " " THEN TokenEnd(s, k + 1) ELSE k

\* str.split()[0] of a string that holds a character other than whitespace
FirstToken(s) == SubSeq(LStrip(s), 1, TokenEnd(LStrip(s), 1))

\* first position >= j that holds a digit, 0 when there is none
RECURSIVE FirstDigitFrom(_, _)
FirstDigitFrom(t, j) ==
    IF j > Len(t) THEN 0 ELSE IF IsDigit(t[j]) THEN j ELSE FirstDigitFrom(t, j + 1)

\* last position of the run of digits that starts at j
RECURSIVE RunEnd(_, _)
RunEnd(t, j) == IF j < Len(t) /\ IsDigit(t[j + 1]) THEN RunEnd(t, j + 1) ELSE j

RECURSIVE SumLen(_, _, _)
SumLen(t, a, b) == IF a > b THEN 0 ELSE CharLen(t[a]) + SumLen(t, a + 1, b)

RECURSIVE SkipSpaces(_, _)
SkipSpaces(t, j) == IF j <= Len(t) /\ t[j] = " " THEN SkipSpaces(t, j + 1) ELSE j

RECURSIVE AlphaEnd(_, _)
AlphaEnd(t, j) == IF j < Len(t) /\ t[j + 1] \in AlphaHyphenAtoms THEN AlphaEnd(t, j + 1) ELSE j

----------------------------------------------------------------------------
(* references.py: ALIASES, ART_PATTERN *)

\* ALIASES, in dictionary order
AliasNames == << <<"TUIR">>, <<"Statuto", " ", "del", " ", "contribuente">> >>
AliasTarget(a) == IF a = AliasNames[1] THEN <<"dpr:917:1986">> ELSE <<"l:212:2000">>

\* \d+[a-z-]* at position j: the end of the match, 0 when no digit is there
IdEnd(t, j) == IF j <= Len(t) /\ IsDigit(t[j]) THEN AlphaEnd(t, RunEnd(t, j)) ELSE 0

\* (?:,\s*<word>\s*(\d+[a-z-]*))? after position e: <<new end, group>>
OptGroup(t, e, word) ==
    LET w == SkipSpaces(t, e + 2)
        g == SkipSpaces(t, w + 1)
    IN  IF e + 1 <= Len(t) /\ t[e + 1] = "," /\ w <= Len(t) /\ t[w] = word /\ IdEnd(t, g) # 0
        THEN <<IdEnd(t, g), SubSeq(t, g, IdEnd(t, g))>>
        ELSE <<e, None_>>

\* (?:,\s*lettera\s*([a-z]))?
OptLetter(t, e) ==
    LET w == SkipSpaces(t, e + 2)
        g == SkipSpaces(t, w + 1)
    IN  IF e + 1 <= Len(t) /\ t[e + 1] = "," /\ w <= Len(t) /\ t[w] = "lettera"
           /\ g <= Len(t) /\ t[g] = "a"
        THEN <<g, <<t[g]>>>>
        ELSE <<e, None_>>

\* (?:,\s*n\.\s*(\d+))?
OptNumber(t, e) ==
    LET w == SkipSpaces(t, e + 2)
        g == SkipSpaces(t, w + 1)
    IN  IF e + 1 <= Len(t) /\ t[e + 1] = "," /\ w <= Len(t) /\ t[w] = "n."
           /\ g <= Len(t) /\ IsDigit(t[g])
        THEN <<RunEnd(t, g), SubSeq(t, g, RunEnd(t, g))>>
        ELSE <<e, None_>>

\* ART_PATTERN matched at position i: its four groups, or None_
ArtMatchAt(t, i) ==
    LET a == SkipSpaces(t, i + 1)
    IN  IF t[i] \in {"art.", "articolo"} /\ IdEnd(t, a) # 0
        THEN LET c == OptGroup(t, IdEnd(t, a), "comma")
                 l == OptLetter(t, c[1])
                 n == OptNumber(t, l[1])
             IN  <<SubSeq(t, a, IdEnd(t, a)), c[2], l[2], n[2]>>
        ELSE None_

\* ART_PATTERN.search(text): the leftmost match
RECURSIVE ArtSearchFrom(_, _)
ArtSearchFrom(t, i) ==
    IF i > Len(t) THEN None_
    ELSE IF ArtMatchAt(t, i) # None_ THEN ArtMatchAt(t, i) ELSE ArtSearchFrom(t, i + 1)

ART_PATTERN_search(t) == ArtSearchFrom(t, 1)

----------------------------------------------------------------------------
(* urn_resolver.py (src/app) *)

\* \d{2,4}
YearLenOk(n) == 2 <= n /\ n <= 4

\* DYNAMIC_LAW_PATTERN matched with its type at position i: <<type, number, year>>
\* or None_.  [^0-9]*? cannot step over a digit, so the number is the first run
\* of digits after the type and the year the run after it; \b makes each the
\* whole run.  The optional regionale/provinciale group is made of characters
\* that [^0-9]*? matches as well, so it never changes the outcome.
DynMatchAt(t, i) ==
    LET ns == FirstDigitFrom(t, i + 1)
        ne == RunEnd(t, ns)
        ys == FirstDigitFrom(t, ne + 1)
        ye == RunEnd(t, ys)
    IN  IF /\ t[i] \in TypeAtoms
           /\ ns # 0
           /\ ~LastIsWord(t[ns - 1])
           /\ ne - ns + 1 <= 4
           /\ ne < Len(t) /\ ~FirstIsWord(t[ne + 1])
           /\ ys # 0
           /\ SumLen(t, ne + 1, ys - 1) <= 15
           /\ ~LastIsWord(t[ys - 1])
           /\ YearLenOk(ye - ys + 1)
           /\ (ye = Len(t) \/ ~FirstIsWord(t[ye + 1]))
        THEN <<t[i], SubSeq(t, ns, ne), SubSeq(t, ys, ye)>>
        ELSE None_

RECURSIVE DynSearchFrom(_, _)
DynSearchFrom(t, i) ==
    IF i > Len(t) THEN None_
    ELSE IF DynMatchAt(t, i) # None_ THEN DynMatchAt(t, i) ELSE DynSearchFrom(t, i + 1)

DYNAMIC_LAW_PATTERN_search(t) == DynSearchFrom(t, 1)

\* lines 50-51
NormalizeYear(anno) ==
    IF Len(anno) = 2
    THEN IF 10 * DigitVal(anno[1]) + DigitVal(anno[2]) < 50
         THEN <<"2", "0">> \o anno ELSE <<"1", "9">> \o anno
    ELSE anno

\* the probe strings of lines 55-61 that occur in the lower-cased type
ProbesIn(tipo) ==
    CASE tipo = "legge" -> {"legge"}
      [] tipo = "l." -> {"l."}
      [] tipo = "d.lgs." -> {"d.lgs", "d.l"}
      [] tipo = "decreto legislativo" -> {"legislativo"}
      [] tipo = "d.l." -> {"l.", "d.l"}
      [] tipo = "decreto legge" -> {"legge", "decreto legge"}
      [] tipo = "d.p.r." -> {"d.p.r"}

\* lines 54-64
UrnType(tipo) ==
    IF "legge" \in ProbesIn(tipo) \/ "l." \in ProbesIn(tipo) THEN "legge"
    ELSE IF "d.lgs" \in ProbesIn(tipo) \/ "legislativo" \in ProbesIn(tipo)
         THEN "decreto.legislativo"
    ELSE IF "d.l" \in ProbesIn(tipo) \/ "decreto legge" \in ProbesIn(tipo)
         THEN "decreto.legge"
    ELSE IF "d.p.r" \in ProbesIn(tipo) THEN "decreto.presidente.repubblica"
    ELSE "legge"

_match_dynamic_law(text) ==
    LET m == DYNAMIC_LAW_PATTERN_search(text)
    IN  IF m = None_ THEN None_
        ELSE <<"urn:", "nir:stato:", UrnType(m[1]), ":">> \o NormalizeYear(m[3])
                 \o <<";">> \o m[2]

\* `alias.lower() in lowered`: an alias is a run of atoms
HasAlias(text, a) ==
    \E k \in 1..Len(text) : k + Len(a) - 1 <= Len(text) /\ SubSeq(text, k, k + Len(a) - 1) = a

_match_alias(text) ==
    IF HasAlias(text, AliasNames[1]) THEN AliasTarget(AliasNames[1])
    ELSE IF HasAlias(text, AliasNames[2]) THEN AliasTarget(AliasNames[2])
    ELSE None_

RECURSIVE JoinWith(_, _)
JoinWith(sep, parts) ==
    IF parts = <<>> THEN <<>>
    ELSE IF Len(parts) = 1 THEN parts[1]
    ELSE parts[1] \o <<sep>> \o JoinWith(sep, Tail(parts))

Part(prefix, v) == IF Truthy(v) THEN <<<<prefix>> \o v>> ELSE <<>>

\* src/app/parsing/urn_resolver.py
_build_urn_app(base_urn, article, comma, letter, number) ==
    LET parts == Part("art", article) \o Part("com", comma)
                 \o Part("let", letter) \o Part("num", number)
        fragment == JoinWith("-", parts)
    IN  IF fragment = <<>> THEN base_urn ELSE base_urn \o <<"#">> \o fragment

\* src/normattiva_kb/app/parsing/urn_resolver.py
_build_urn_kb(base_urn, article, comma, letter, number) ==
    LET parts == Part("art:", article) \o Part("c:", comma)
                 \o Part("lett:", letter) \o Part("num:", number)
    IN  IF parts = <<>> THEN base_urn ELSE base_urn \o <<"#">> \o JoinWith("/", parts)

Resolved(urn, confidence, method) ==
    [urn |-> urn, confidence |-> confidence, method |-> method]

\* mutant: the contextual fallback is tried before the alias table
ResolveTail_contextual_first(combined, art, doc_urn) ==
    IF art # None_ /\ Truthy(doc_urn)
    THEN Resolved(_build_urn_app(doc_urn, art[1], art[2], art[3], art[4]), 60, "contextual")
    ELSE IF _match_alias(combined) # None_
    THEN Resolved(_build_urn_app(_match_alias(combined),
                                 IF art = None_ THEN None_ ELSE art[1],
                                 IF art = None_ THEN None_ ELSE art[2],
                                 IF art = None_ THEN None_ ELSE art[3],
                                 IF art = None_ THEN None_ ELSE art[4]), 80, "alias")
    ELSE Resolved(None_, 0, "unresolved")

\* lines 108-119: alias, contextual, unresolved
ResolveTail(combined, art, doc_urn) ==
    LET article == IF art = None_ THEN None_ ELSE art[1]
        comma == IF art = None_ THEN None_ ELSE art[2]
        letter == IF art = None_ THEN None_ ELSE art[3]
        number == IF art = None_ THEN None_ ELSE art[4]
    IN  IF _match_alias(combined) # None_
        THEN Resolved(_build_urn_app(_match_alias(combined), article, comma, letter, number),
                      80, "alias")
        ELSE IF art # None_ /\ Truthy(doc_urn)
        THEN Resolved(_build_urn_app(doc_urn, article, comma, letter, number),
                      60, "contextual")
        ELSE Resolved(None_, 0, "unresolved")

\* UrnResolver.resolve; confidences are in hundredths
resolve(mt, snippet, doc_urn) ==
    LET combined == Strip(mt \o <<" ">> \o snippet)
        art == ART_PATTERN_search(mt)
        article == IF art = None_ THEN None_ ELSE art[1]
        comma == IF art = None_ THEN None_ ELSE art[2]
        letter == IF art = None_ THEN None_ ELSE art[3]
        number == IF art = None_ THEN None_ ELSE art[4]
        ext_law_urn == _match_dynamic_law(combined)
    IN  IF \E k \in 1..Len(mt) : mt[k] = "urn:"
        THEN Resolved(FirstToken(mt), 100, "explicit")
        ELSE IF ext_law_urn # None_
        THEN Resolved(_build_urn_app(ext_law_urn, article, comma, letter, number),
                      85, "dynamic_parsing")
        ELSE ResolveTail(combined, art, doc_urn)

----------------------------------------------------------------------------
(* Resolver runs: UrnResolver(document_urn).resolve(match_text, raw_snippet) *)

Phrases ==
    { <<>>,
      <<"urn:", "x">>,
      <<"l.", " ", "4", "0", "/", "9", "8">>,
      <<"legge", " ", "4", "0", " ", "del", " ", "0", "5">>,
      <<"d.lgs.", " ", "4", "/", "1", "9", "9", "8">>,
      <<"l.", " ", "4", "0", " ", "e", " ", "successive", " ", "modificazioni", " ", "9", "8">>,
      <<"legge", "4", "0", "/", "9", "8">>,
      <<"art.", " ", "5">>,
      <<"art.", " ", "5", "-bis", ",", " ", "comma", " ", "2", ",", " ", "lettera", " ", "a",
        ",", " ", "n.", " ", "3">>,
      <<"articolo", " ", "5", ",", " ", "lettera", " ", "a">>,
      <<"TUIR">>,
      <<"Statuto", " ", "del", " ", "contribuente">>,
      <<"del">> }

RECURSIVE JoinPhrases(_)
JoinPhrases(ps) ==
    IF ps = <<>> THEN <<>>
    ELSE IF Len(ps) = 1 THEN ps[1]
    ELSE ps[1] \o <<" ">> \o JoinPhrases(Tail(ps))

PhraseTexts == {JoinPhrases(ps) : ps \in UNION {[1..n -> Phrases] : n \in 0..MaxWords}}

YearDigits == {"0", "4", "5", "9"}
YearStrings == UNION {[1..n -> YearDigits] : n \in 1..MaxYearLen}
YearTexts == {<<"l.", " ", "4", "0", "/">> \o y : y \in YearStrings}

DocumentUrns == {None_, <<"urn:", "doc:x">>}

IdleDetect ==
    /\ input = <<>>
    /\ conflicts = <<>>
    /\ normalized = <<>>
    /\ raised = FALSE
    /\ pc = "idle"
    /\ build = "none"

InitResolve ==
    /\ match_text \in PhraseTexts \cup YearTexts
    /\ raw_snippet \in Phrases
    /\ document_urn \in DocumentUrns
    /\ result = <<>>
    /\ urn_args = <<>>
    /\ urn_built = <<>>
    /\ rpc = "start"
    /\ IdleDetect
    /\ InitDb
    /\ IdleExt

Resolve ==
    /\ rpc = "start"
    /\ result' = resolve(match_text, raw_snippet, document_urn)
    /\ rpc' = "done"
    /\ UNCHANGED <<match_text, raw_snippet, document_urn, urn_args, urn_built,
                   detVars, build, dbVars, extVars>>

NextResolve == Resolve

SpecResolve == InitResolve /\ [][NextResolve]_vars

----------------------------------------------------------------------------
(* Resolver runs on citations of an act: a type, a number and a year *)

CitedNumbers == {<<"4">>, <<"1", "8">>, <<"2", "3", "1">>}
CitedYears == {<<"2", "0", "0", "1">>, <<"2", "0", "2", "0">>, <<"9", "8">>, <<"0", "5">>}
CitedSeparators == {<<"/">>, <<" ", "del", " ">>}

InitCitation ==
    /\ \E tipo \in TypeAtoms, numero \in CitedNumbers, sep \in CitedSeparators,
          anno \in CitedYears :
          match_text = <<tipo, " ">> \o numero \o sep \o anno
    /\ raw_snippet = <<>>
    /\ document_urn \in DocumentUrns
    /\ result = <<>>
    /\ urn_args = <<>>
    /\ urn_built = <<>>
    /\ rpc = "start"
    /\ IdleDetect
    /\ InitDb
    /\ IdleExt

SpecCitation == InitCitation /\ [][NextResolve]_vars

----------------------------------------------------------------------------
(* _build_urn on arbitrary arguments, both snapshots *)

BaseUrns == {<<"urn:", "doc:x">>, <<"dpr:917:1986">>}
IdValues == {None_, <<>>, <<"5">>, <<"5", "-bis">>}
LetterValues == {None_, <<>>, <<"a">>}
NumberValues == {None_, <<>>, <<"3">>}

InitBuildUrn ==
    /\ urn_args \in [base_urn : BaseUrns, article : IdValues, comma : IdValues,
                     letter : LetterValues, number : NumberValues]
    /\ urn_built = <<>>
    /\ rpc = "start"
    /\ match_text = <<>>
    /\ raw_snippet = <<>>
    /\ document_urn = <<>>
    /\ result = <<>>
    /\ IdleDetect
    /\ InitDb
    /\ IdleExt

BuildUrn(b) ==
    /\ rpc = "start"
    /\ build' = b
    /\ urn_built' =
          IF b = "app"
          THEN _build_urn_app(urn_args.base_urn, urn_args.article, urn_args.comma,
                              urn_args.letter, urn_args.number)
          ELSE _build_urn_kb(urn_args.base_urn, urn_args.article, urn_args.comma,
                             urn_args.letter, urn_args.number)
    /\ rpc' = "built"
    /\ UNCHANGED <<match_text, raw_snippet, document_urn, result, urn_args,
                   detVars, dbVars, extVars>>

BuildUrnApp == BuildUrn("app")
BuildUrnKb == BuildUrn("kb")

NextBuildUrn == BuildUrnApp \/ BuildUrnKb

SpecBuildUrn == InitBuildUrn /\ [][NextBuildUrn]_vars

----------------------------------------------------------------------------
(* UrnResolver instances and the lru_cache of the kb snapshot's resolve *)

NonEmpty(part) == part # <<>>

\* src/normattiva_kb/app/parsing/urn_resolver.py, UrnResolver.resolve without its cache
resolve_kb(doc_urn, mt, context_text) ==
    LET combined == Strip(JoinPhrases(SelectSeq(<<mt, context_text>>, NonEmpty)))
        urnAt == CHOOSE k \in 1..Len(combined) :
                    /\ combined[k] = "urn:"
                    /\ \A j \in 1..(k - 1) : combined[j] # "urn:"
        match == IF ART_PATTERN_search(mt) # None_ THEN ART_PATTERN_search(mt)
                 ELSE ART_PATTERN_search(combined)
        alias_doc == _match_alias(combined)
    IN  IF combined = <<>> THEN Resolved(None_, 0, "manual")
        ELSE IF mt # <<>> /\ mt[1] = "urn:" THEN Resolved(mt, 95, "explicit")
        ELSE IF \E k \in 1..Len(combined) : combined[k] = "urn:"
        THEN Resolved(FirstToken(SubSeq(combined, urnAt, Len(combined))), 90, "explicit")
        ELSE IF match # None_ /\ Truthy(doc_urn)
        THEN Resolved(_build_urn_kb(doc_urn, match[1], match[2], match[3], match[4]),
                      70, "contextual")
        ELSE IF alias_doc # None_
        THEN IF match # None_
             THEN Resolved(_build_urn_kb(alias_doc, match[1], match[2], match[3], match[4]),
                           60, "heuristic")
             ELSE Resolved(alias_doc, 55, "heuristic")
        ELSE IF match # None_ THEN Resolved(None_, 35, "manual")
        ELSE Resolved(None_, 10, "manual")

\* mutant: the receiver is left out of the cache key
CacheKey_no_self(self, mt, context_text) == <<mt, context_text>>

\* lru_cache on a method: the key holds the receiver, hashed by identity
CacheKey(self, mt, context_text) == <<self, mt, context_text>>

CacheHit(cache, key) == \E k \in 1..Len(cache) : cache[k].key = key
CacheIndex(cache, key) == CHOOSE k \in 1..Len(cache) : cache[k].key = key
Without(cache, k) == SubSeq(cache, 1, k - 1) \o SubSeq(cache, k + 1, Len(cache))
\* a new entry evicts the least recently used one when the cache is full
CachePut(cache, entry) ==
    IF Len(cache) >= MaxCache THEN Tail(cache) \o <<entry>> ELSE cache \o <<entry>>

CallDocs == {None_, <<"urn:", "doc:x">>, <<"urn:", "doc:y">>}
CallTexts == {<<"art.", " ", "5">>, <<"TUIR">>, <<"del", " ", "urn:", "x">>, <<"del">>}
CallContexts == {<<>>, <<"art.", " ", "5", ",", " ", "comma", " ", "2">>, <<"TUIR">>}

InitCache ==
    /\ build \in {"app", "kb"}
    /\ resolvers = <<>>
    /\ lru = <<>>
    /\ calls = {}
    /\ input = <<>>
    /\ conflicts = <<>>
    /\ normalized = <<>>
    /\ raised = FALSE
    /\ pc = "idle"
    /\ InitDb
    /\ IdleResolver
    /\ IdleIngest
    /\ IdleHier
    /\ IdleParse
    /\ IdleLate

\* UrnResolver(document_urn)
NewResolver(d) ==
    /\ Len(resolvers) < MaxResolvers
    /\ resolvers' = Append(resolvers, d)
    /\ UNCHANGED <<lru, calls, build, notCache>>

CallRecord(self, mt, ctx, value, hit) ==
    [self |-> self, doc |-> resolvers[self], mt |-> mt, ctx |-> ctx,
     value |-> value, hit |-> hit]

\* resolver.resolve(match_text, raw_snippet) of src/app: nothing is cached
CallApp(self, mt, ctx) ==
    /\ build = "app"
    /\ Cardinality(calls) < MaxCalls
    /\ calls' = calls \cup {CallRecord(self, mt, ctx, resolve(mt, ctx, resolvers[self]), FALSE)}
    /\ UNCHANGED <<resolvers, lru, build, notCache>>

\* resolver.resolve(match_text, raw_snippet) of src/normattiva_kb: through the lru_cache
CallKb(self, mt, ctx) ==
    LET key == CacheKey(self, mt, ctx)
    IN  /\ build = "kb"
        /\ Cardinality(calls) < MaxCalls
        /\ IF CacheHit(lru, key)
           THEN LET k == CacheIndex(lru, key)
                IN  /\ calls' = calls \cup {CallRecord(self, mt, ctx, lru[k].value, TRUE)}
                    /\ lru' = Without(lru, k) \o <<lru[k]>>
           ELSE LET value == resolve_kb(resolvers[self], mt, ctx)
                IN  /\ calls' = calls \cup {CallRecord(self, mt, ctx, value, FALSE)}
                    /\ lru' = CachePut(lru, [key |-> key, value |-> value])
        /\ UNCHANGED <<resolvers, build, notCache>>

NextCache ==
    \/ \E d \in CallDocs : NewResolver(d)
    \/ \E self \in 1..Len(resolvers), mt \in CallTexts, ctx \in CallContexts :
          CallApp(self, mt, ctx)
    \/ \E self \in 1..Len(resolvers), mt \in CallTexts, ctx \in CallContexts :
          CallKb(self, mt, ctx)

SpecCache == InitCache /\ [][NextCache]_vars

----------------------------------------------------------------------------
(* cmd_parse: document versions and nodes stored from parsed raw files *)

\* hashlib.sha256(value).hexdigest(): an injective image of the text
sha256_text(value) == <<"sha256(">> \o value \o <<")">>

Digits == <<"0", "1", "2", "3", "4", "5", "6", "7", "8", "9">>
\* str(n) of a natural number
RECURSIVE IntStr(_)
IntStr(n) == IF n < 10 THEN <<Digits[n + 1]>> ELSE IntStr(n \div 10) \o <<Digits[(n % 10) + 1]>>

\* mutant: the text of the node is hashed into its id
NodeIdOf_with_text(doc_id, version_id, node_data) ==
    sha256_text(doc_id \o <<":">> \o IntStr(version_id) \o <<":">> \o node_data.canonical_path
                  \o <<":">> \o node_data.text_raw)

\* sha256_text(f"{doc.doc_id}:{version.version_id}:{cp}")
NodeIdOf(doc_id, version_id, node_data) ==
    sha256_text(doc_id \o <<":">> \o IntStr(version_id) \o <<":">> \o node_data.canonical_path)

CanonicalDocs == {<<"l:1:2000">>, <<"l:2:2000">>}
VersionTags == {None_, <<"v1">>}
NodePaths == {<<"art:", "1">>, <<"art:", "2">>}
NodeTexts == {<<"a">>, <<"b">>}
ParsedNode == [canonical_path : NodePaths, text_raw : NodeTexts]
ParsedNodeLists == UNION {[1..n -> ParsedNode] : n \in 0..MaxNodes}
\* doc_info["valid_from"], doc_info["valid_to"]: what the parser read in the
\* file's metadata, None when the file gives none
DocValidFrom == {Null, DateMin + 1}
DocValidTo == {Null, DateMin + 2}
RawFile == [canonical_doc : CanonicalDocs, version_tag : VersionTags, nodes : ParsedNodeLists,
            valid_from : DocValidFrom, valid_to : DocValidTo,
            status : {"new"}, error : {None_}]

\* "\n".join(node["text_raw"] for node in parsed["nodes"])
TextConcat(nodes) == JoinWith("\n", [k \in 1..Len(nodes) |-> nodes[k].text_raw])
\* doc_info.get("version_tag") or f"import:{raw.raw_id}"
VersionTagOf(f, raw_id) ==
    IF Truthy(f.version_tag) THEN f.version_tag ELSE <<"import:">> \o IntStr(raw_id)

ExistingVersions(stored, doc_id, version_tag) ==
    {v \in stored : v.doc_id = doc_id /\ v.version_tag = version_tag}
MaxVersionId(stored) ==
    IF stored = {} THEN 0
    ELSE CHOOSE m \in {v.version_id : v \in stored} : \A v \in stored : v.version_id <= m
DocumentVersion(version_id, data) ==
    [version_id |-> version_id, doc_id |-> data.doc_id, version_tag |-> data.version_tag,
     checksum_text |-> data.checksum_text, source_raw_id |-> data.source_raw_id,
     valid_from |-> data.valid_from, valid_to |-> data.valid_to]

\* repo.upsert_document_version: the stored row takes every value of data, or a
\* new row is added; the table afterwards and the row returned
upsert_document_version(stored, data) ==
    LET existing == ExistingVersions(stored, data.doc_id, data.version_tag)
    IN  IF existing # {}
        THEN LET old == CHOOSE v \in existing : TRUE
                 row == DocumentVersion(old.version_id, data)
             IN  [table |-> (stored \ {old}) \cup {row}, version |-> row]
        ELSE LET row == DocumentVersion(MaxVersionId(stored) + 1, data)
             IN  [table |-> stored \cup {row}, version |-> row]

\* models.Node(...) as _persist_parsed (app) and cmd_parse (kb) fill it: kb copies
\* valid_from and valid_to from the version, app passes neither and the columns
\* stay NULL; both set is_current_law = (version.valid_to is None)
NodeRow(b, version, node_data) ==
    [node_id |-> NodeIdOf(version.doc_id, version.version_id, node_data),
     doc_id |-> version.doc_id,
     version_id |-> version.version_id, canonical_path |-> node_data.canonical_path,
     text_raw |-> node_data.text_raw,
     valid_from |-> IF b = "kb" THEN version.valid_from ELSE Null,
     valid_to |-> IF b = "kb" THEN version.valid_to ELSE Null,
     is_current_law |-> (version.valid_to = Null)]
NewNodeRows(b, version, nodes) ==
    [k \in 1..Len(nodes) |-> NodeRow(b, version, nodes[k])]
\* the INSERTs break the primary key node_id or uq_nodes_path
IntegrityError(stored, rows) ==
    \/ \E k \in 1..Len(rows) : \E r \in stored :
          \/ r.node_id = rows[k].node_id
          \/ r.version_id = rows[k].version_id /\ r.canonical_path = rows[k].canonical_path
    \/ \E j, k \in 1..Len(rows) :
          /\ j # k
          /\ \/ rows[j].node_id = rows[k].node_id
             \/ rows[j].canonical_path = rows[k].canonical_path
Computation(raw_id, row) ==
    [raw_id |-> raw_id, doc_id |-> row.doc_id, version_id |-> row.version_id,
     canonical_path |-> row.canonical_path, text_raw |-> row.text_raw, node_id |-> row.node_id]
Computations(raw_id, rows) == {Computation(raw_id, rows[k]) : k \in 1..Len(rows)}
RangeOf(seq) == {seq[k] : k \in 1..Len(seq)}

VersionPayload(f, raw_id) ==
    [doc_id |-> sha256_text(f.canonical_doc), version_tag |-> VersionTagOf(f, raw_id),
     checksum_text |-> sha256_text(TextConcat(f.nodes)), source_raw_id |-> raw_id,
     valid_from |-> f.valid_from, valid_to |-> f.valid_to]

SetStatus(files, raw_id, status, error) ==
    [files EXCEPT ![raw_id] = [@ EXCEPT !.status = status, !.error = error]]

\* mutant: the loop ends at the first file that failed
NextNew_until_error(raw_id) ==
    /\ raw_id \in 1..Len(raw_files)
    /\ raw_files[raw_id].status = "new"
    /\ \A j \in 1..(raw_id - 1) : raw_files[j].status \notin {"new", "error"}

\* cmd_parse handles the new raw files in the order of raw_id
NextNew(raw_id) ==
    /\ raw_id \in 1..Len(raw_files)
    /\ raw_files[raw_id].status = "new"
    /\ \A j \in 1..(raw_id - 1) : raw_files[j].status # "new"

InitIngest ==
    /\ build \in {"app", "kb"}
    /\ \E n \in 1..MaxFiles : raw_files \in [1..n -> RawFile]
    /\ versions = {}
    /\ node_rows = {}
    /\ computed = {}
    /\ autobegun \in BOOLEAN
    /\ input = <<>>
    /\ conflicts = <<>>
    /\ normalized = <<>>
    /\ raised = FALSE
    /\ pc = "idle"
    /\ InitDb
    /\ IdleResolver
    /\ IdleCache
    /\ IdleHier
    /\ IdleParse
    /\ IdleLate

\* src/app/cli.py: one turn of the loop of cmd_parse, _persist_parsed included.
\* An exception rolls the session back and stores the status "error".
ParseApp(raw_id) ==
    LET f == raw_files[raw_id]
        up == upsert_document_version(versions, VersionPayload(f, raw_id))
        rows == NewNodeRows(build, up.version, f.nodes)
    IN  /\ build = "app"
        /\ NextNew(raw_id)
        /\ computed' = computed \cup Computations(raw_id, rows)
        /\ IF IntegrityError(node_rows, rows)
           THEN /\ raw_files' = SetStatus(raw_files, raw_id, "error", <<"IntegrityError">>)
                /\ UNCHANGED <<versions, node_rows>>
           ELSE /\ raw_files' = SetStatus(raw_files, raw_id, "parsed", None_)
                /\ versions' = up.table
                /\ node_rows' = node_rows \cup RangeOf(rows)
        /\ UNCHANGED <<autobegun, build, notIngest>>

\* src/normattiva_kb/app/cli.py: one turn of the loop of cmd_parse
ParseKb(raw_id) ==
    LET f == raw_files[raw_id]
        data == VersionPayload(f, raw_id)
        existing_version == ExistingVersions(versions, data.doc_id, data.version_tag)
        up == upsert_document_version(versions, data)
        rows == NewNodeRows(build, up.version, f.nodes)
    IN  /\ build = "kb"
        /\ NextNew(raw_id)
        /\ IF autobegun
           THEN /\ raw_files' = SetStatus(raw_files, raw_id, "error",
                                          <<"A transaction is already begun on this Session.">>)
                /\ UNCHANGED <<versions, node_rows, computed>>
           ELSE IF \E v \in existing_version : v.checksum_text = data.checksum_text
           THEN /\ raw_files' = SetStatus(raw_files, raw_id, "parsed", None_)
                /\ UNCHANGED <<versions, node_rows, computed>>
           ELSE IF existing_version # {}
           THEN /\ raw_files' = SetStatus(raw_files, raw_id, "conflict",
                                          <<"checksum_mismatch_for_version">>)
                /\ UNCHANGED <<versions, node_rows, computed>>
           ELSE /\ computed' = computed \cup Computations(raw_id, rows)
                /\ IF IntegrityError(node_rows, rows)
                   THEN /\ raw_files' = SetStatus(raw_files, raw_id, "error",
                                                  <<"IntegrityError">>)
                        /\ UNCHANGED <<versions, node_rows>>
                   ELSE /\ raw_files' = SetStatus(raw_files, raw_id, "parsed", None_)
                        /\ versions' = up.table
                        /\ node_rows' = node_rows \cup RangeOf(rows)
        /\ UNCHANGED <<autobegun, build, notIngest>>

NextIngest ==
    \/ \E raw_id \in 1..MaxFiles : ParseApp(raw_id)
    \/ \E raw_id \in 1..MaxFiles : ParseKb(raw_id)

SpecIngest == InitIngest /\ [][NextIngest]_vars

----------------------------------------------------------------------------
(* _compute_hierarchy_string: the breadcrumb of a canonical path.  A path is *)
(* a sequence of atoms; "/" separates segments and ":" a prefix from its id. *)

\* str.split("/") without the empty pieces: the segments of a path
RECURSIVE SplitSlash(_, _)
SplitSlash(path, piece) ==
    IF path = <<>> THEN (IF piece = <<>> THEN <<>> ELSE <<piece>>)
    ELSE IF Head(path) = "/"
         THEN (IF piece = <<>> THEN <<>> ELSE <<piece>>) \o SplitSlash(Tail(path), <<>>)
         ELSE SplitSlash(Tail(path), Append(piece, Head(path)))

skip_keywords == {"akomantoso", "akomanotoso", "akoma", "akn", "it", "act", "main", "main.xml"}
\* a segment that is one of the technical prefixes
IsSkipped(seg) == Len(seg) = 1 /\ seg[1] \in skip_keywords
IsKept(seg) == ~IsSkipped(seg)

\* seg.partition(":"): the atoms before the first ":" and those after it
RECURSIVE ColonAt(_, _)
ColonAt(seg, k) == IF k > Len(seg) THEN 0 ELSE IF seg[k] = ":" THEN k ELSE ColonAt(seg, k + 1)
PartitionBase(seg) == IF ColonAt(seg, 1) = 0 THEN seg ELSE SubSeq(seg, 1, ColonAt(seg, 1) - 1)
PartitionRest(seg) ==
    IF ColonAt(seg, 1) = 0 THEN <<>> ELSE SubSeq(seg, ColonAt(seg, 1) + 1, Len(seg))

Labelled(label, bare, r) == IF r # <<>> THEN <<label, " ">> \o r ELSE <<bare>>

\* pretty(seg), lines 412-431
pretty(seg) ==
    LET b == PartitionBase(seg)
        r == PartitionRest(seg)
    IN  IF b \in {<<"art">>, <<"articolo">>, <<"article">>} THEN Labelled("Art.", "Art.", r)
        ELSE IF b \in {<<"com">>, <<"comma">>, <<"paragraph">>}
        THEN Labelled("Comma", "Comma", r)
        ELSE IF b \in {<<"let">>, <<"lett">>, <<"letter">>, <<"lettera">>}
        THEN Labelled("lett.", "Lettera", r)
        ELSE IF b \in {<<"num">>, <<"numero">>, <<"item">>, <<"number">>}
        THEN Labelled("n.", "Numero", r)
        ELSE IF b \in {<<"capo">>, <<"chapter">>} THEN Labelled("Capo", "Capo", r)
        ELSE IF b \in {<<"tit">>, <<"titolo">>, <<"title">>} THEN Labelled("Titolo", "Titolo", r)
        ELSE IF r # <<>> THEN b \o <<" ">> \o r
        ELSE b

_compute_hierarchy_string(canonical_path) ==
    IF ~Truthy(canonical_path) THEN None_
    ELSE LET parts == SplitSlash(canonical_path, <<>>)
             kept == SelectSeq(parts, IsKept)
             cleaned_parts == IF kept = <<>> THEN parts ELSE kept
         IN  IF parts = <<>> THEN None_
             ELSE JoinWith(" > ", [k \in 1..Len(cleaned_parts) |-> pretty(cleaned_parts[k])])

SegmentPrefixes == {"art", "c", "comma", "lett", "num", "capo", "tit", "akn", "allegato"}
SegmentIds == {<<>>, <<":", "5">>, <<":", "2">>, <<":", "a">>}
Segments == {<<p>> \o i : p \in SegmentPrefixes, i \in SegmentIds}
\* hs_path is None, empty, a lone "/" or up to MaxSegments segments
AnyCanonicalPath ==
    \/ hs_path \in {None_, <<>>, <<"/">>}
    \/ \E n \in 1..MaxSegments : \E segs \in [1..n -> Segments] :
          hs_path = JoinWith("/", segs)

InitHier ==
    /\ AnyCanonicalPath
    /\ hs_result = <<>>
    /\ hs_pc = "start"
    /\ input = <<>>
    /\ conflicts = <<>>
    /\ normalized = <<>>
    /\ raised = FALSE
    /\ pc = "idle"
    /\ build = "none"
    /\ InitDb
    /\ IdleResolver
    /\ IdleCache
    /\ IdleIngest
    /\ IdleParse
    /\ IdleLate

ComputeHierarchy ==
    /\ hs_pc = "start"
    /\ hs_result' = _compute_hierarchy_string(hs_path)
    /\ hs_pc' = "done"
    /\ UNCHANGED <<hs_path, notHier>>

NextHier == ComputeHierarchy

SpecHier == InitHier /\ [][NextHier]_vars

----------------------------------------------------------------------------
(* tag_config.py: DEFAULT_TAG_CONFIG of both snapshots *)

structural_tags_app ==
    {"article", "articolo", "paragraph", "comma", "clause", "section", "part",
     "chapter", "book", "annex", "allegato", "item", "point", "list"}
container_tags_app ==
    {"akomaNtoso", "act", "body", "mainBody", "preamble", "preambolo", "preface",
     "conclusions", "meta", "formula", "citations", "hcontainer", "attachment",
     "attachments", "quotedStructure"}
inline_tags_app ==
    {"p", "content", "num", "heading", "subheading", "intro", "alinea", "letter",
     "subpoint", "ins", "del", "mod", "ref", "quotedText", "span", "b", "i", "u",
     "sub", "sup"}
metadata_tags_app ==
    {"meta", "identification", "publication", "classification", "lifecycle",
     "analysis", "references", "proprietary", "eli", "rdf", "FRBRWork",
     "FRBRExpression", "FRBRManifestation", "FRBRthis", "FRBRuri", "FRBRalias",
     "FRBRdate", "FRBRauthor", "FRBRcountry", "FRBRlanguage"}

structural_tags_kb == {"act", "chapter", "section", "article", "book", "title", "part"}
container_tags_kb == {"paragraph", "point", "letter", "subparagraph", "list", "item"}
inline_tags_kb == {"ref", "ins", "del", "b", "i", "u", "sup", "sub", "span"}
metadata_tags_kb == {"meta", "analysis", "notes", "ndr", "note"}

\* the four fields of the TagConfig a snapshot's parser is built with
DEFAULT_TAG_CONFIG(b) ==
    IF b = "app"
    THEN [structural_tags |-> structural_tags_app, container_tags |-> container_tags_app,
          inline_tags |-> inline_tags_app, metadata_tags |-> metadata_tags_app]
    ELSE [structural_tags |-> structural_tags_kb, container_tags |-> container_tags_kb,
          inline_tags |-> inline_tags_kb, metadata_tags |-> metadata_tags_kb]

----------------------------------------------------------------------------
(* XML documents.  A document is the sequence of its elements in document    *)
(* order; element 1 is the root.  An element has a tag, the value of its     *)
(* eId or id attribute, the text before its first child, the tail after its  *)
(* end tag and the index of its parent (0 for the root, -1 once it has been  *)
(* removed from the tree).  <<>> is an absent attribute, text or tail.       *)

Element(tag, eid, text, tail, parent) ==
    [tag |-> tag, eid |-> eid, text |-> text, tail |-> tail, parent |-> parent]

TextTokens == <<"t1", "t2", "t3", "t4">>
TailTokens == <<"u1", "u2", "u3", "u4">>
Ids == {<<>>, <<"1">>}

\* p[i] is the parent of element i
RECURSIVE ParentChain(_, _)
ParentChain(p, i) == IF i <= 0 THEN {} ELSE {i} \cup ParentChain(p, p[i])
AncestorsOrSelf(t, i) == ParentChain([j \in DOMAIN t |-> t[j].parent], i)
Ancestors(t, i) == AncestorsOrSelf(t, i) \ {i}
Descendants(t, i) == {j \in DOMAIN t : i \in Ancestors(t, j)}
Indices(t) == [k \in 1..Len(t) |-> k]
\* `for child in node`
Children(t, i) == SelectSeq(Indices(t), LAMBDA j : t[j].parent = i)

\* document order: an element follows its parent, or closes elements opened
\* before it and follows one of their ancestors
ParentVectors(n) ==
    {p \in [1..n -> 0..(n - 1)] :
        /\ p[1] = 0
        /\ \A i \in 2..n : p[i] \in ParentChain(p, i - 1)}
\* the root has no tail
Document(n, p, tags, ids, texts, tails) ==
    [i \in 1..n |->
        Element(tags[i], ids[i],
                IF texts[i] THEN <<TextTokens[i]>> ELSE <<>>,
                IF i > 1 /\ tails[i] THEN <<TailTokens[i]>> ELSE <<>>,
                p[i])]
\* tree is any document of up to MaxElems elements with tags of the given set
AnyDocument(tagset) ==
    \E n \in 1..MaxElems : \E p \in ParentVectors(n) :
    \E tags \in [1..n -> tagset] : \E ids \in [1..n -> Ids] :
    \E texts \in [1..n -> BOOLEAN] : \E tails \in [2..n -> BOOLEAN] :
        tree = Document(n, p, tags, ids, texts, tails)

----------------------------------------------------------------------------
(* akoma_parser.py, both snapshots *)

IsAlnum(a) == a # " "

\* re.sub(r"\s+", " ", text) and strip(); the atoms hold no control character
\* and no punctuation
RECURSIVE CollapseSpaces(_)
CollapseSpaces(s) ==
    IF Len(s) < 2 THEN s
    ELSE IF s[1] = " " /\ s[2] = " " THEN CollapseSpaces(Tail(s))
    ELSE <<s[1]>> \o CollapseSpaces(Tail(s))
_normalize_whitespace(text) == Strip(CollapseSpaces(text))

\* parts is the list already joined
_append_part(parts, text) ==
    IF text = <<>> THEN parts
    ELSE IF parts # <<>> /\ IsAlnum(parts[Len(parts)]) /\ IsAlnum(text[1])
         THEN parts \o <<" ">> \o text
         ELSE parts \o text

\* lxml: "".join(node.itertext()), the text of the element and of every
\* descendant, each descendant's tail included
RECURSIVE itertext(_, _), itertext_children(_, _)
itertext(t, i) == t[i].text \o itertext_children(t, Children(t, i))
itertext_children(t, cs) ==
    IF cs = <<>> THEN <<>>
    ELSE itertext(t, cs[1]) \o t[cs[1]].tail \o itertext_children(t, Tail(cs))

\* src/app: the function returns at line 181, before the loop that skips
\* structural and container children
_get_clean_text_app(t, i) == _normalize_whitespace(Strip(itertext(t, i)))

RECURSIVE _get_clean_text_kb(_, _), absorb_children_kb(_, _, _)
_get_clean_text_kb(t, i) ==
    _normalize_whitespace(absorb_children_kb(t, Children(t, i), _append_part(<<>>, t[i].text)))
absorb_children_kb(t, cs, parts) ==
    IF cs = <<>> THEN parts
    ELSE LET child == cs[1]
             cfg == DEFAULT_TAG_CONFIG("kb")
             absorbed == _append_part(_append_part(parts, _get_clean_text_kb(t, child)),
                                      t[child].tail)
         IN  absorb_children_kb(t, Tail(cs),
                 IF t[child].tag \in cfg.inline_tags THEN absorbed
                 ELSE IF t[child].tag \in cfg.container_tags
                      THEN _append_part(parts, t[child].tail)
                      ELSE absorbed)

_get_clean_text(b, t, i) ==
    IF b = "app" THEN _get_clean_text_app(t, i) ELSE _get_clean_text_kb(t, i)

\* f"{tag}:{e_id}" if e_id else tag
PathSegment(tag, eid) == IF eid # <<>> THEN <<tag, ":">> \o eid ELSE <<tag>>
_build_path(parent_path, t, i) ==
    IF parent_path # <<>>
    THEN parent_path \o <<"/">> \o PathSegment(t[i].tag, t[i].eid)
    ELSE PathSegment(t[i].tag, t[i].eid)

\* the stack holds the (tag, e_id) pairs of the open elements, outermost first
StackOf(t, i) ==
    SelectSeq(Indices(t), LAMBDA j : j \in AncestorsOrSelf(t, i))
_build_path_from_stack(b, t, stack) ==
    JoinWith("/", [k \in 1..Len(SelectSeq(stack,
                        LAMBDA j : t[j].tag \notin DEFAULT_TAG_CONFIG(b).metadata_tags)) |->
                    LET j == SelectSeq(stack,
                                 LAMBDA x : t[x].tag \notin DEFAULT_TAG_CONFIG(b).metadata_tags)[k]
                    IN  PathSegment(t[j].tag, t[j].eid)])

\* elem stands for the element text_xml_fragment was serialised from
NodeOut(path, text, i) == [canonical_path |-> path, text_content |-> text, elem |-> i]
EmitIf(cond, path, text, i) == IF cond /\ text # <<>> THEN <<NodeOut(path, text, i)>> ELSE <<>>

RECURSIVE _visit_node(_, _, _, _), visit_children(_, _, _, _)
_visit_node(b, t, i, parent_path) ==
    LET cfg == DEFAULT_TAG_CONFIG(b)
        node_path == _build_path(parent_path, t, i)
        text == _get_clean_text(b, t, i)
    IN  IF t[i].tag \in cfg.metadata_tags THEN <<>>
        ELSE (IF b = "kb" THEN EmitIf(t[i].tag \in cfg.container_tags, node_path, text, i)
                          ELSE <<>>)
             \o EmitIf(t[i].tag \in cfg.structural_tags, node_path, text, i)
             \o visit_children(b, t, Children(t, i), node_path)
visit_children(b, t, cs, parent_path) ==
    IF cs = <<>> THEN <<>>
    ELSE _visit_node(b, t, cs[1], parent_path) \o visit_children(b, t, Tail(cs), parent_path)

\* AkomaNtosoParser.parse
parse(b, t) == _visit_node(b, t, 1, <<>>)

\* elem.clear() takes the children, attributes, text and tail of the element;
\* the loop over getprevious() removes its earlier siblings with their tails.
\* The tail is still there afterwards when the parser reads it only after the
\* end event (the element is not in seen).
_clear_element(t, i, seen) ==
    [j \in 1..Len(t) |->
        IF j = i
        THEN Element(t[i].tag, <<>>, <<>>, IF i \in seen THEN <<>> ELSE t[i].tail, t[i].parent)
        ELSE IF t[j].parent = i THEN [t[j] EXCEPT !.parent = -1]
        ELSE IF t[j].parent = t[i].parent /\ j < i /\ t[i].parent > 0
             THEN [t[j] EXCEPT !.parent = -1]
             ELSE t[j]]

\* the end events come in the order the elements close
RECURSIVE EndOrder(_, _), EndOrderAll(_, _)
EndOrder(t, i) == EndOrderAll(t, Children(t, i)) \o <<i>>
EndOrderAll(t, cs) ==
    IF cs = <<>> THEN <<>> ELSE EndOrder(t, cs[1]) \o EndOrderAll(t, Tail(cs))

\* the loop of parse_iter over the end events still to come; t is the tree
\* as the earlier events left it
RECURSIVE parse_iter_events(_, _, _, _)
parse_iter_events(b, t, seen, ends) ==
    IF ends = <<>> THEN <<>>
    ELSE LET i == ends[1]
             cfg == DEFAULT_TAG_CONFIG(b)
             emits == \/ t[i].tag \in cfg.structural_tags
                      \/ b = "kb" /\ t[i].tag \in cfg.container_tags
         IN  EmitIf(emits, _build_path_from_stack(b, t, StackOf(t, i)),
                    _get_clean_text(b, t, i), i)
             \o parse_iter_events(b, _clear_element(t, i, seen), seen, Tail(ends))

\* AkomaNtosoParser.parse_iter
parse_iter(b, t, seen) == parse_iter_events(b, t, seen, EndOrder(t, 1))

\* tags of every class of either configuration
AkomaTags == {"article", "paragraph", "body", "b", "meta"}
WithTail(t) == {j \in DOMAIN t : t[j].tail # <<>>}

InitAkoma ==
    /\ AnyDocument(AkomaTags)
    /\ parsed = NoParse
    /\ build \in {"app", "kb"}
    /\ input = <<>>
    /\ conflicts = <<>>
    /\ normalized = <<>>
    /\ raised = FALSE
    /\ pc = "idle"
    /\ InitDb
    /\ IdleResolver
    /\ IdleCache
    /\ IdleIngest
    /\ IdleHier
    /\ IdleLate

Parse ==
    /\ parsed.mode = "none"
    /\ parsed' = [mode |-> "parse", seen |-> {}, nodes |-> parse(build, tree)]
    /\ UNCHANGED <<tree, build, notParse>>

ParseIter ==
    /\ parsed.mode = "none"
    /\ \E seen \in SUBSET WithTail(tree) :
          parsed' = [mode |-> "parse_iter", seen |-> seen,
                     nodes |-> parse_iter(build, tree, seen)]
    /\ UNCHANGED <<tree, build, notParse>>

NextAkoma == Parse \/ ParseIter

SpecAkoma == InitAkoma /\ [][NextAkoma]_vars

----------------------------------------------------------------------------
(* normattiva_parser.py: the legacy dialect, both snapshots *)

\* node_text.py: " ".join(element.itertext()); every text and tail of the
\* documents is one atom
extract_text(t, i) ==
    IF i = 0 THEN <<>> ELSE JoinWith(" ", [k \in 1..Len(itertext(t, i)) |-> <<itertext(t, i)[k]>>])
\* utils_text.normalize_whitespace
clean_text(text) == Strip(CollapseSpaces(text))

\* element.findall(tag), element.find(tag): children only; 0 stands for None
findall(t, i, tag) == SelectSeq(Children(t, i), LAMBDA j : t[j].tag = tag)
find(t, i, tag) == IF findall(t, i, tag) = <<>> THEN 0 ELSE findall(t, i, tag)[1]

IdOr_head(t, i, default) == IF t[i].eid # <<>> THEN <<t[i].eid[1]>> ELSE <<default>>
\* element.get("id") or default
IdOr(t, i, default) == IF t[i].eid # <<>> THEN t[i].eid ELSE <<default>>

\* elem stands for the element the node was built from
_build_node(node_type, label, path, text_raw, i) ==
    [node_type |-> node_type, label |-> label, canonical_path |-> path,
     text_clean |-> clean_text(text_raw), elem |-> i]

_parse_preambolo(t, i) ==
    <<_build_node("atto_preambolo", <<"Preambolo">>, <<"atto", "/", "preambolo">>, extract_text(t, i), i)>>

RECURSIVE numero_nodes(_, _, _), lettera_nodes(_, _, _), comma_nodes(_, _, _)
numero_nodes(t, ns, letter_path) ==
    IF ns = <<>> THEN <<>>
    ELSE <<_build_node("numero", <<"num.", " ">> \o IdOr(t, ns[1], "1"),
                       letter_path \o <<"/", "num", ":">> \o IdOr(t, ns[1], "1"),
                       extract_text(t, ns[1]), ns[1])>>
         \o numero_nodes(t, Tail(ns), letter_path)
lettera_nodes(t, ls, comma_path) ==
    IF ls = <<>> THEN <<>>
    ELSE LET letter_path == comma_path \o <<"/", "lett", ":">> \o IdOr(t, ls[1], "a")
         IN  <<_build_node("lettera", <<"lett.", " ">> \o IdOr(t, ls[1], "a"), letter_path,
                           extract_text(t, ls[1]), ls[1])>>
             \o numero_nodes(t, findall(t, ls[1], "numero"), letter_path)
             \o lettera_nodes(t, Tail(ls), comma_path)
comma_nodes(t, cs, art_path) ==
    IF cs = <<>> THEN <<>>
    ELSE LET comma_path == art_path \o <<"/", "c", ":">> \o IdOr(t, cs[1], "1")
         IN  <<_build_node("comma", <<"comma", " ">> \o IdOr(t, cs[1], "1"), comma_path,
                           extract_text(t, cs[1]), cs[1])>>
             \o lettera_nodes(t, findall(t, cs[1], "lettera"), comma_path)
             \o comma_nodes(t, Tail(cs), art_path)

\* src/normattiva_kb empties the article's text when there are commas and
\* appends a "comma 1" node when there are none; src/app does neither
_parse_articolo(b, t, i) ==
    LET art_path == <<"art", ":">> \o IdOr(t, i, "1")
        comma_elements == findall(t, i, "comma")
        testo == extract_text(t, find(t, i, "testo"))
        text_raw == IF b = "kb" /\ comma_elements # <<>> THEN <<>> ELSE testo
    IN  <<_build_node("articolo", <<"Art.", " ">> \o IdOr(t, i, "1"), art_path, text_raw, i)>>
        \o (IF b = "kb" /\ comma_elements = <<>>
            THEN <<_build_node("comma", <<"comma", " ", "1">>, art_path \o <<"/", "c", ":", "1">>,
                               extract_text(t, i), i)>>
            ELSE <<>>)
        \o comma_nodes(t, comma_elements, art_path)

RECURSIVE tabella_nodes(_, _, _)
tabella_nodes(t, ts, allegato_path) ==
    IF ts = <<>> THEN <<>>
    ELSE <<_build_node("tabella", <<"Tabella", " ">> \o IdOr(t, ts[1], "1"),
                       allegato_path \o <<"/", "tabella", ":">> \o IdOr(t, ts[1], "1"),
                       extract_text(t, ts[1]), ts[1])>>
         \o tabella_nodes(t, Tail(ts), allegato_path)
_parse_allegato(t, i) ==
    LET allegato_path == <<"allegato", ":">> \o IdOr(t, i, "A")
    IN  <<_build_node("allegato", <<"Allegato", " ">> \o IdOr(t, i, "A"), allegato_path,
                       extract_text(t, i), i)>>
        \o tabella_nodes(t, findall(t, i, "tabella"), allegato_path)

_parse_nota(t, i) ==
    <<_build_node("nota", <<"nota", " ">> \o IdOr(t, i, "1"), <<"nota", ":">> \o IdOr(t, i, "1"),
                  extract_text(t, i), i)>>

_parse_fragment(b, t, i) ==
    IF t[i].tag = "preambolo" THEN _parse_preambolo(t, i)
    ELSE IF t[i].tag = "articolo" THEN _parse_articolo(b, t, i)
    ELSE IF t[i].tag = "allegato" THEN _parse_allegato(t, i)
    ELSE IF t[i].tag = "nota" THEN _parse_nota(t, i)
    ELSE <<>>

RECURSIVE fragments(_, _, _)
fragments(b, t, es) ==
    IF es = <<>> THEN <<>> ELSE _parse_fragment(b, t, es[1]) \o fragments(b, t, Tail(es))

\* the first preambolo, then the articolo, allegato and nota children of the root
_parse_nodes(b, t) ==
    (IF find(t, 1, "preambolo") # 0 THEN _parse_preambolo(t, find(t, 1, "preambolo")) ELSE <<>>)
    \o fragments(b, t, findall(t, 1, "articolo"))
    \o fragments(b, t, findall(t, 1, "allegato"))
    \o fragments(b, t, findall(t, 1, "nota"))

\* parse_normattiva of a tree that is not Akoma Ntoso
parse_normattiva(b, t) == _parse_nodes(b, t)

\* the loop of parse_normattiva_iter over the end events still to come
RECURSIVE parse_normattiva_events(_, _, _, _)
parse_normattiva_events(b, t, seen, ends) ==
    IF ends = <<>> THEN <<>>
    ELSE IF t[ends[1]].tag \in {"preambolo", "articolo", "allegato", "nota"}
         THEN _parse_fragment(b, t, ends[1])
              \o parse_normattiva_events(b, _clear_element(t, ends[1], seen), seen, Tail(ends))
         ELSE parse_normattiva_events(b, t, seen, Tail(ends))

\* parse_normattiva_iter of a file that is not Akoma Ntoso
parse_normattiva_iter(b, t, seen) == parse_normattiva_events(b, t, seen, EndOrder(t, 1))

LegacyTags == {"atto", "articolo", "testo", "comma", "lettera", "allegato"}
\* the elements whose tail parse_normattiva_iter can clear
ClearedWithTail(t) == {j \in WithTail(t) : t[j].tag \in {"preambolo", "articolo", "allegato", "nota"}}

InitLegacy ==
    /\ AnyDocument(LegacyTags)
    /\ parsed = NoParse
    /\ build \in {"app", "kb"}
    /\ input = <<>>
    /\ conflicts = <<>>
    /\ normalized = <<>>
    /\ raised = FALSE
    /\ pc = "idle"
    /\ InitDb
    /\ IdleResolver
    /\ IdleCache
    /\ IdleIngest
    /\ IdleHier
    /\ IdleLate

ParseNormattiva ==
    /\ parsed.mode = "none"
    /\ parsed' = [mode |-> "parse_normattiva", seen |-> {},
                  nodes |-> parse_normattiva(build, tree)]
    /\ UNCHANGED <<tree, build, notParse>>

ParseNormattivaIter ==
    /\ parsed.mode = "none"
    /\ \E seen \in SUBSET ClearedWithTail(tree) :
          parsed' = [mode |-> "parse_normattiva_iter", seen |-> seen,
                     nodes |-> parse_normattiva_iter(build, tree, seen)]
    /\ UNCHANGED <<tree, build, notParse>>

NextLegacy == ParseNormattiva \/ ParseNormattivaIter

SpecLegacy == InitLegacy /\ [][NextLegacy]_vars

----------------------------------------------------------------------------
(* _parse_fragment on one element of the legacy dialect, as the loop of       *)
(* parse_normattiva_iter calls it.  The element is the root of tree; every   *)
(* element has text and no tail, and an id with a suffix or none.            *)

FragmentTags == {"articolo", "testo", "comma", "lettera", "numero", "allegato", "tabella"}
FragmentIds == {<<>>, <<"1", "-bis">>}
AnyFragment ==
    \E n \in 1..MaxDepth : \E p \in ParentVectors(n) :
    \E tags \in [1..n -> FragmentTags] : \E ids \in [1..n -> FragmentIds] :
        tree = Document(n, p, tags, ids, [i \in 1..n |-> TRUE], [i \in 1..n |-> FALSE])

InitFragment ==
    /\ AnyFragment
    /\ parsed = NoParse
    /\ build \in {"app", "kb"}
    /\ input = <<>>
    /\ conflicts = <<>>
    /\ normalized = <<>>
    /\ raised = FALSE
    /\ pc = "idle"
    /\ InitDb
    /\ IdleResolver
    /\ IdleCache
    /\ IdleIngest
    /\ IdleHier
    /\ IdleLate

ParseFragment ==
    /\ parsed.mode = "none"
    /\ parsed' = [mode |-> "_parse_fragment", seen |-> {},
                  nodes |-> _parse_fragment(build, tree, 1)]
    /\ UNCHANGED <<tree, build, notParse>>

NextFragment == ParseFragment

SpecFragment == InitFragment /\ [][NextFragment]_vars

----------------------------------------------------------------------------
(* repo.py: upsert_raw_file, with the records raw_file_record builds *)

Sha256s == {"s1", "s2"}
OriginalPaths == {"a.xml", "b.xml"}

\* raw_store.raw_file_record: status "new", error None
raw_file_record(path, sha, derived_from) ==
    [original_path |-> path, derived_from_raw_id |-> derived_from, sha256 |-> sha,
     status |-> "new", error |-> None_]

\* models.RawFile(**data) with the raw_id the database assigns
RawFileRow(raw_id, data) ==
    [raw_id |-> raw_id, original_path |-> data.original_path,
     derived_from_raw_id |-> data.derived_from_raw_id, sha256 |-> data.sha256,
     status |-> data.status, error |-> data.error]

\* uq_raw_files_derived: NULLs never collide in a unique constraint
BreaksDerived(tbl, data) ==
    /\ data.derived_from_raw_id # Null
    /\ \E k \in 1..Len(tbl) :
          /\ tbl[k].derived_from_raw_id = data.derived_from_raw_id
          /\ tbl[k].original_path = data.original_path

\* mutant: the lookup is by path instead of by sha256
ExistingRaw_by_path(tbl, data) ==
    {k \in 1..Len(tbl) : tbl[k].original_path = data.original_path}

\* select(RawFile).where(RawFile.sha256 == data["sha256"])
ExistingRaw(tbl, data) ==
    {k \in 1..Len(tbl) : tbl[k].sha256 = data.sha256}

\* repo.upsert_raw_file: the table afterwards, the row returned, and whether
\* session.flush() raised IntegrityError
upsert_raw_file(tbl, data) ==
    LET existing == ExistingRaw(tbl, data)
    IN  IF existing # {}
        THEN [table |-> tbl, row |-> tbl[CHOOSE k \in existing : TRUE], raises |-> FALSE]
        ELSE IF BreaksDerived(tbl, data)
        THEN [table |-> tbl, row |-> None_, raises |-> TRUE]
        ELSE LET raw == RawFileRow(Len(tbl) + 1, data)
             IN  [table |-> Append(tbl, raw), row |-> raw, raises |-> FALSE]

\* the files extracted from one stored archive under one name have one content:
\* cmd_ingest never hands in a second sha256 for a stored (derived_from, path)
FromIngest(tbl, data) ==
    \A k \in 1..Len(tbl) :
        (/\ data.derived_from_raw_id # Null
         /\ tbl[k].derived_from_raw_id = data.derived_from_raw_id
         /\ tbl[k].original_path = data.original_path) => tbl[k].sha256 = data.sha256

InitRaw ==
    /\ raw_tbl = <<>>
    /\ upserts = <<>>
    /\ IdleDetect
    /\ InitDb
    /\ IdleResolver
    /\ IdleCache
    /\ IdleIngest
    /\ IdleHier
    /\ IdleParse
    /\ IdleRefs
    /\ IdleExtract

\* cmd_ingest: repo.upsert_raw_file(session, raw_file_record(...))
UpsertRawFile ==
    /\ Len(upserts) < MaxUpserts
    /\ \E path \in OriginalPaths, sha \in Sha256s,
          derived_from \in {Null} \cup (1..Len(raw_tbl)) :
          LET data == raw_file_record(path, sha, derived_from)
              up == upsert_raw_file(raw_tbl, data)
          IN  /\ FromIngest(raw_tbl, data)
              /\ raw_tbl' = up.table
              /\ upserts' = Append(upserts, [data |-> data, row |-> up.row])
              /\ raised' = up.raises
    /\ UNCHANGED <<input, conflicts, normalized, pc, build, dbVars, resVars,
                   cacheVars, ingestVars, hierVars, parseVars, refVars, extractVars>>

\* cmd_parse: the status and the error it stores on a raw file that was new
MarkRawFile ==
    /\ \E raw_id \in 1..Len(raw_tbl), status \in {"parsed", "error"} :
          /\ raw_tbl[raw_id].status = "new"
          /\ raw_tbl' = [raw_tbl EXCEPT ![raw_id] =
                 [@ EXCEPT !.status = status,
                           !.error = IF status = "error" THEN <<"IntegrityError">> ELSE None_]]
    /\ UNCHANGED <<upserts, detVars, build, dbVars, resVars,
                   cacheVars, ingestVars, hierVars, parseVars, refVars, extractVars>>

NextRaw == UpsertRawFile \/ MarkRawFile

SpecRaw == InitRaw /\ [][NextRaw]_vars

----------------------------------------------------------------------------
(* cli.py: cmd_resolve_references, both snapshots, run any number of times   *)
(* over one content of references_extracted.  Targets are strings; "" is the *)
(* empty string and NoTarget is None.                                         *)

NoTarget == "None"

TargetNodes == {NoTarget, "l:1:2000#art:5"}
TargetDocs == {NoTarget, "l:1:2000"}
RelationTypes == {"CITES", "AMENDS"}
Confidences == {40, 90}

ReferenceExtracted ==
    [source_node_id : {9}, target_canonical_node : TargetNodes,
     target_canonical_doc : TargetDocs, relation_type : RelationTypes,
     confidence : Confidences]

\* target.split("#")[-1] (kb) and target.split("#", 1)[-1] (app) of the targets
\* above: what follows the only "#", or the whole string
AfterHash(target) == IF target = "l:1:2000#art:5" THEN "art:5" ELSE target

\* session.query(Node).filter(Node.canonical_path == path).first(), its node_id
NodeIdAt(path) ==
    IF \E n \in nodes_tbl : n.canonical_path = path
    THEN (CHOOSE n \in nodes_tbl : n.canonical_path = path).node_id
    ELSE Null

ReferenceResolved(source, target_node_id, target, relation, confidence) ==
    [source_node_id |-> source, target_node_id |-> target_node_id,
     target_canonical_node |-> target, relation_type |-> relation,
     confidence |-> confidence]

\* the primary key of references_resolved
ResolvedKey(row) == <<row.source_node_id, row.target_canonical_node, row.relation_type>>

\* kb, lines 241-254: the row built for one extracted reference
Resolved_kb(ref) ==
    ReferenceResolved(ref.source_node_id,
                      IF ref.target_canonical_node # NoTarget
                      THEN NodeIdAt(AfterHash(ref.target_canonical_node)) ELSE Null,
                      IF ref.target_canonical_node # NoTarget
                      THEN ref.target_canonical_node ELSE "",
                      ref.relation_type, ref.confidence)

\* app, line 222: (ref.target_canonical_node or ref.target_canonical_doc or "")
TargetStr(ref) ==
    IF ref.target_canonical_node # NoTarget THEN ref.target_canonical_node
    ELSE IF ref.target_canonical_doc # NoTarget THEN ref.target_canonical_doc
    ELSE ""

\* app, lines 222-252
Resolved_app(ref) ==
    ReferenceResolved(ref.source_node_id,
                      IF TargetStr(ref) # "" THEN NodeIdAt(AfterHash(TargetStr(ref))) ELSE Null,
                      TargetStr(ref), ref.relation_type, ref.confidence)

\* mutant: the lookup of session.merge finds nothing, every row is an INSERT
IsStored_never(tbl, row) == FALSE

\* session.merge looks the primary key up in the identity map and then in the
\* table; with autoflush off it finds committed rows and rows it has loaded,
\* never the rows that wait for their INSERT
IsStored(tbl, row) == \E k \in 1..Len(tbl) : ResolvedKey(tbl[k]) = ResolvedKey(row)

\* session.merge(row): a stored row takes the values handed in, a row that is
\* not stored is queued for INSERT
merge(session, row) ==
    IF IsStored(session.table, row)
    THEN [session EXCEPT !.table =
             [k \in 1..Len(@) |-> IF ResolvedKey(@[k]) = ResolvedKey(row) THEN row ELSE @[k]],
                         !.merged = @ \cup {ResolvedKey(row)}]
    ELSE [session EXCEPT !.pending = Append(@, row)]

\* the INSERTs of the flush break the primary key
FlushFails(session) ==
    \/ \E i, j \in 1..Len(session.pending) :
          i # j /\ ResolvedKey(session.pending[i]) = ResolvedKey(session.pending[j])
    \/ \E i \in 1..Len(session.pending) : IsStored(session.table, session.pending[i])

\* kb: one merge per extracted reference
RECURSIVE ResolveLoop_kb(_, _, _)
ResolveLoop_kb(refs, i, session) ==
    IF i > Len(refs) THEN session
    ELSE ResolveLoop_kb(refs, i + 1, merge(session, Resolved_kb(refs[i])))

\* app: references without a target are skipped, and so is a key seen before
RECURSIVE ResolveLoop_app(_, _, _, _)
ResolveLoop_app(refs, i, seen_keys, session) ==
    IF i > Len(refs) THEN session
    ELSE LET row == Resolved_app(refs[i])
         IN  IF row.target_canonical_node = "" \/ ResolvedKey(row) \in seen_keys
             THEN ResolveLoop_app(refs, i + 1, seen_keys, session)
             ELSE ResolveLoop_app(refs, i + 1, seen_keys \cup {ResolvedKey(row)},
                                  merge(session, row))

ResolveLoop(b, refs, tbl) ==
    LET session == [table |-> tbl, pending |-> <<>>, merged |-> {}]
    IN  IF b = "app" THEN ResolveLoop_app(refs, 1, {}, session)
        ELSE ResolveLoop_kb(refs, 1, session)

InitRefs ==
    /\ build \in {"app", "kb"}
    /\ \E n \in 0..MaxRefs : extracted_tbl \in [1..n -> ReferenceExtracted]
    /\ resolved_tbl = <<>>
    /\ resolve_log = <<>>
    /\ nodes_tbl = {}
    /\ events = <<>>
    /\ created = 0
    /\ runs = 0
    /\ nulls_first = TRUE
    /\ input = <<>>
    /\ conflicts = <<>>
    /\ normalized = <<>>
    /\ raised = FALSE
    /\ pc = "idle"
    /\ IdleResolver
    /\ IdleCache
    /\ IdleIngest
    /\ IdleHier
    /\ IdleParse
    /\ IdleRaw
    /\ IdleExtract

\* cmd_parse stores the node a reference points at
StoreTargetNode ==
    /\ nodes_tbl = {}
    /\ nodes_tbl' = {Node(1, <<"d1", "art:5">>, Null, Null, TRUE)}
    /\ pc' = "idle"
    /\ raised' = FALSE
    /\ UNCHANGED <<refVars, input, conflicts, normalized, build,
                   events, created, runs, nulls_first, resVars,
                   cacheVars, ingestVars, hierVars, parseVars, rawVars, extractVars>>

\* one run of cmd_resolve_references: the loop and session.commit().  A commit
\* that fails leaves the `with` block with the exception and stores nothing.
cmd_resolve_references(b) ==
    /\ build = b
    /\ Len(resolve_log) < MaxRuns
    /\ LET session == ResolveLoop(b, extracted_tbl, resolved_tbl)
           fails == FlushFails(session)
       IN  /\ resolved_tbl' = IF fails THEN resolved_tbl
                              ELSE session.table \o session.pending
           /\ raised' = fails
           /\ pc' = IF fails THEN "failed" ELSE "committed"
           /\ resolve_log' = Append(resolve_log,
                  [inserted |-> IF fails THEN 0 ELSE Len(session.pending),
                   updated |-> IF fails THEN 0 ELSE Cardinality(session.merged),
                   failed |-> fails])
    /\ UNCHANGED <<extracted_tbl, input, conflicts, normalized, build, dbVars, resVars,
                   cacheVars, ingestVars, hierVars, parseVars, rawVars, extractVars>>

ResolveReferencesApp == cmd_resolve_references("app")
ResolveReferencesKb == cmd_resolve_references("kb")

NextRefs ==
    \/ StoreTargetNode
    \/ ResolveReferencesApp
    \/ ResolveReferencesKb

SpecRefs == InitRefs /\ [][NextRefs]_vars

----------------------------------------------------------------------------
(* references.py: extract_references, both snapshots.  Positions are counted *)
(* in characters.  The atom "Ix204" stands for 204 times the letter U+0130,   *)
(* whose lower case has two characters; "\\" is one backslash.                *)

AtomLen(a) == IF IsDigit(a) THEN 1 ELSE CharLen(a)
\* len(a.lower())
LowerLen(a) == IF a = "Ix204" THEN 2 * AtomLen(a) ELSE AtomLen(a)

RECURSIVE TextLen(_)
TextLen(t) == IF t = <<>> THEN 0 ELSE AtomLen(Head(t)) + TextLen(Tail(t))
\* the position in text of atom k, counted from 0
RECURSIVE Offset(_, _)
Offset(t, k) == IF k <= 1 THEN 0 ELSE Offset(t, k - 1) + AtomLen(t[k - 1])
\* the position in text.lower() of atom k
RECURSIVE LowerOffset(_, _)
LowerOffset(t, k) == IF k <= 1 THEN 0 ELSE LowerOffset(t, k - 1) + LowerLen(t[k - 1])

Max(a, b) == IF a >= b THEN a ELSE b
Min(a, b) == IF a <= b THEN a ELSE b

\* text[start:end]: the atoms with a character in the slice; it is empty exactly
\* when no character of the text is in start..end-1
Slice(t, start, end) ==
    LET inside == {k \in 1..Len(t) :
                      Offset(t, k) < end /\ Offset(t, k) + AtomLen(t[k]) > start}
    IN  IF inside = {} THEN <<>>
        ELSE SubSeq(t, CHOOSE k \in inside : \A j \in inside : k <= j,
                       CHOOSE k \in inside : \A j \in inside : k >= j)

\* the width of _snippet
SnippetWidth == 200
\* the characters of the text the app snapshot falls back to
FallbackWidth == 400

\* src/app/parsing/references.py
_snippet_app(text, position) ==
    IF text = <<>> THEN <<"(testo vuoto)">>
    ELSE LET start == Max(0, position - SnippetWidth)
             end == Min(TextLen(text), position + SnippetWidth)
             snippet == Strip(Slice(text, start, end))
         IN  IF snippet # <<>> THEN snippet
             ELSE Slice(text, 0, Min(FallbackWidth, TextLen(text)))

\* src/normattiva_kb/app/parsing/references.py
_snippet_kb(text, position) ==
    LET start == Max(0, position - SnippetWidth)
        end == Min(TextLen(text), position + SnippetWidth)
    IN  Slice(text, start, end)

_snippet(b, text, position) ==
    IF b = "app" THEN _snippet_app(text, position) ELSE _snippet_kb(text, position)

\* RELATION_PATTERNS in dictionary order; the app snapshot has a fourth entry,
\* CITES, which is the default as well
RelationPhrases == <<"modificato da", "abrogato", "in deroga a">>
RelationNames == <<"AMENDS", "REPEALS", "DEROGATES">>
RECURSIVE DetectFrom(_, _)
DetectFrom(text, k) ==
    IF k > Len(RelationPhrases) THEN "CITES"
    ELSE IF \E i \in 1..Len(text) : text[i] = RelationPhrases[k] THEN RelationNames[k]
    ELSE DetectFrom(text, k + 1)
_detect_relation(text) == DetectFrom(text, 1)

\* canonical_doc_id(doc_type, number, year)
canonical_doc_id(doc_type, number, year) == <<doc_type, ":">> \o number \o <<":">> \o year

Match(start, end, number, year) ==
    [start |-> start, end |-> end, number |-> number, year |-> year]
NoMatch == [start |-> 0, end |-> 0, number |-> <<>>, year |-> <<>>]

\* (\d+)/(\d{4}) at position j of a match that began at position i
NumberSlashYear(t, i, j) ==
    LET ne == RunEnd(t, j)
    IN  IF /\ j <= Len(t) /\ IsDigit(t[j])
           /\ ne + 5 <= Len(t) /\ t[ne + 1] = "/"
           /\ \A k \in (ne + 2)..(ne + 5) : IsDigit(t[k])
        THEN Match(i, ne + 5, SubSeq(t, j, ne), SubSeq(t, ne + 2, ne + 5))
        ELSE NoMatch

\* decreto legislativo n\.\s*(\d+)\s+del\s+(\d{4})
DecretoMatchAt(t, i) ==
    LET j == SkipSpaces(t, i + 3)
        ne == RunEnd(t, j)
        d == SkipSpaces(t, ne + 1)
        y == SkipSpaces(t, d + 1)
    IN  IF /\ t[i] = "decreto legislativo"
           /\ i + 2 <= Len(t) /\ t[i + 1] = " " /\ t[i + 2] = "n."
           /\ j <= Len(t) /\ IsDigit(t[j])
           /\ d > ne + 1 /\ d <= Len(t) /\ t[d] = "del"
           /\ y > d + 1 /\ y + 3 <= Len(t)
           /\ \A k \in y..(y + 3) : IsDigit(t[k])
        THEN Match(i, y + 3, SubSeq(t, j, ne), SubSeq(t, y, y + 3))
        ELSE NoMatch

\* d\.lgs\.\s*(\d+)/(\d{4})
DlgsMatchAt(t, i) ==
    IF t[i] = "d.lgs." THEN NumberSlashYear(t, i, SkipSpaces(t, i + 1)) ELSE NoMatch

\* legge\s*(\d+)/(\d{4})
LeggeMatchAt(t, i) ==
    IF t[i] = "legge" THEN NumberSlashYear(t, i, SkipSpaces(t, i + 1)) ELSE NoMatch

\* l\.\s*n\.\s*(\d+)/(\d{4})
LnMatchAt(t, i) ==
    LET n == SkipSpaces(t, i + 1)
    IN  IF t[i] = "l." /\ n <= Len(t) /\ t[n] = "n."
        THEN NumberSlashYear(t, i, SkipSpaces(t, n + 1)) ELSE NoMatch

\* the third pattern is written r"d\\.?p\\.?r\\.?\\s*(\\d+)/(\\d{4})": in a raw
\* string each \\ is a backslash the text must hold, followed by an optional
\* character (.?), by any number of s (s*), by one or more d (d+) or by four d
\* (d{4}).  With no optional character and no s the text it matches is
\*    d \ p \ r \ \ \ d+ / \ d d d d
\* and the groups are the backslash with the d that follow it.
RECURSIVE LetterRunEnd(_, _, _)
LetterRunEnd(t, j, c) ==
    IF j < Len(t) /\ t[j + 1] = c THEN LetterRunEnd(t, j + 1, c) ELSE j
DprMatchAt(t, i) ==
    LET ne == LetterRunEnd(t, i + 8, "d")
    IN  IF /\ i + 8 <= Len(t)
           /\ SubSeq(t, i, i + 8) = <<"d", "\\", "p", "\\", "r", "\\", "\\", "\\", "d">>
           /\ ne + 6 <= Len(t)
           /\ SubSeq(t, ne + 1, ne + 6) = <<"/", "\\", "d", "d", "d", "d">>
        THEN Match(i, ne + 6, SubSeq(t, i + 7, ne), SubSeq(t, ne + 2, ne + 6))
        ELSE NoMatch

\* ACT_PATTERNS[k] matched at position i
ActMatchAt(k, t, i) ==
    CASE k = 1 -> DecretoMatchAt(t, i)
      [] k = 2 -> DlgsMatchAt(t, i)
      [] k = 3 -> DprMatchAt(t, i)
      [] k = 4 -> LeggeMatchAt(t, i)
      [] k = 5 -> LnMatchAt(t, i)

ActDocTypes == <<"dlgs", "dlgs", "dpr", "l", "l">>

\* pattern.finditer(text): the matches from left to right, none overlapping
RECURSIVE ActFindIter(_, _, _)
ActFindIter(k, t, i) ==
    IF i > Len(t) THEN <<>>
    ELSE IF ActMatchAt(k, t, i) # NoMatch
    THEN <<ActMatchAt(k, t, i)>> \o ActFindIter(k, t, ActMatchAt(k, t, i).end + 1)
    ELSE ActFindIter(k, t, i + 1)

\* the end of the ART_PATTERN match that begins at position i
ArtMatchEnd(t, i) ==
    LET e == IdEnd(t, SkipSpaces(t, i + 1))
    IN  OptNumber(t, OptLetter(t, OptGroup(t, e, "comma")[1])[1])[1]

\* ART_PATTERN.finditer(text): the start and the end of each match
RECURSIVE ArtFindIter(_, _)
ArtFindIter(t, i) ==
    IF i > Len(t) THEN <<>>
    ELSE IF ArtMatchAt(t, i) # None_
    THEN <<[start |-> i, end |-> ArtMatchEnd(t, i), groups |-> ArtMatchAt(t, i)]>>
             \o ArtFindIter(t, ArtMatchEnd(t, i) + 1)
    ELSE ArtFindIter(t, i + 1)

\* lowered.index(alias.lower()): the first atom of the first occurrence, 0 when
\* the alias is not in the text
AliasIndex(t, a) ==
    LET at == {k \in 1..Len(t) :
                  k + Len(a) - 1 <= Len(t) /\ SubSeq(t, k, k + Len(a) - 1) = a}
    IN  IF at = {} THEN 0 ELSE CHOOSE k \in at : \A j \in at : k <= j

Candidate(pass, matched, snippet, target, relation, confidence) ==
    [pass |-> pass, match_text |-> matched, raw_snippet |-> snippet,
     target_canonical_doc |-> target, relation_type |-> relation,
     confidence |-> confidence]

\* the first loop: one candidate per alias found in the lowered text
AliasCandidates(b, text) ==
    LET one(a) == IF AliasIndex(text, a) = 0 THEN <<>>
                  ELSE <<Candidate("alias", a,
                                   _snippet(b, text, LowerOffset(text, AliasIndex(text, a))),
                                   AliasTarget(a), "CITES", 60)>>
    IN  one(AliasNames[1]) \o one(AliasNames[2])

\* text[max(0, match.start() - 80) : match.end() + 80] holds an article
ArticleNear(text, m) ==
    ART_PATTERN_search(
        Slice(text, Max(0, Offset(text, m.start) - 80),
                    Offset(text, m.end) + AtomLen(text[m.end]) + 80)) # None_

\* the second loop: one candidate per match of each pattern of ACT_PATTERNS
RECURSIVE ActCandidates(_, _, _)
ActCandidates(b, text, k) ==
    IF k > Len(ActDocTypes) THEN <<>>
    ELSE LET ms == ActFindIter(k, text, 1)
         IN  [j \in 1..Len(ms) |->
                 Candidate("act", SubSeq(text, ms[j].start, ms[j].end),
                           _snippet(b, text, Offset(text, ms[j].start)),
                           canonical_doc_id(ActDocTypes[k], ms[j].number, ms[j].year),
                           _detect_relation(text),
                           IF ArticleNear(text, ms[j]) THEN 90 ELSE 60)]
             \o ActCandidates(b, text, k + 1)

\* the third loop: one candidate per article reference, without a target document
ArticleCandidates(b, text) ==
    LET ms == ArtFindIter(text, 1)
    IN  [j \in 1..Len(ms) |->
            Candidate("article", SubSeq(text, ms[j].start, ms[j].end),
                      _snippet(b, text, Offset(text, ms[j].start)),
                      None_, _detect_relation(text), 40)]

extract_references(b, text) ==
    AliasCandidates(b, text) \o ActCandidates(b, text, 1) \o ArticleCandidates(b, text)

ExtractPhrases ==
    { <<"d.lgs.", " ", "7", "4", "/", "2", "0", "0", "0">>,
      <<"DPR", " ", "9", "1", "7", "/", "1", "9", "8", "6">>,
      <<"legge", " ", "2", "1", "2", "/", "2", "0", "0", "0">>,
      <<"l.", " ", "n.", " ", "4", "/", "1", "9", "9", "8">>,
      <<"decreto legislativo", " ", "n.", " ", "4", " ", "del", " ", "1", "9", "9", "8">>,
      <<"d", "\\", "p", "\\", "r", "\\", "\\", "\\", "d", "/", "\\", "d", "d", "d", "d">>,
      <<"modificato da">>,
      <<"abrogato">>,
      <<"art.", " ", "5", ",", " ", "comma", " ", "2">>,
      <<"TUIR">>,
      <<"Ix204">> }

InitExtract ==
    /\ build \in {"app", "kb"}
    /\ \E n \in 0..MaxPhrases : \E ps \in [1..n -> ExtractPhrases] :
          ref_text = JoinPhrases(ps)
    /\ candidates = NoCandidates
    /\ input = <<>>
    /\ conflicts = <<>>
    /\ normalized = <<>>
    /\ raised = FALSE
    /\ pc = "idle"
    /\ InitDb
    /\ IdleResolver
    /\ IdleCache
    /\ IdleIngest
    /\ IdleHier
    /\ IdleParse
    /\ IdleRefs
    /\ IdleRaw

ExtractReferences(b) ==
    /\ build = b
    /\ candidates = NoCandidates
    /\ candidates' = extract_references(b, ref_text)
    /\ UNCHANGED <<ref_text, detVars, build, dbVars, resVars,
                   cacheVars, ingestVars, hierVars, parseVars, refVars, rawVars>>

ExtractReferencesApp == ExtractReferences("app")
ExtractReferencesKb == ExtractReferences("kb")

NextExtract == ExtractReferencesApp \/ ExtractReferencesKb

SpecExtract == InitExtract /\ [][NextExtract]_vars

----------------------------------------------------------------------------
(* Vocabulary of the claims about detect_temporal_conflicts *)

KeyOf(n) == <<n.doc_id, n.canonical_path>>
StartOf(n) == IF n.valid_from = Null THEN DateMin ELSE n.valid_from
EndOf(n) == IF n.valid_to = Null THEN DateMax ELSE n.valid_to

\* closed intervals: sharing a single day is an overlap
ClosedOverlap(a, b) == StartOf(a) <= EndOf(b) /\ StartOf(b) <= EndOf(a)

\* groups are contiguous and, inside a group, validity starts do not decrease
GroupedSorted(s) ==
    /\ \A i, j, k \in 1..Len(s) :
          (i < j /\ j < k /\ KeyOf(s[i]) = KeyOf(s[k])) => KeyOf(s[j]) = KeyOf(s[i])
    /\ \A i, j \in 1..Len(s) :
          (i < j /\ KeyOf(s[i]) = KeyOf(s[j])) => StartOf(s[i]) <= StartOf(s[j])

NodeById(s, id) == CHOOSE n \in {s[k] : k \in 1..Len(s)} : n.node_id = id
IdsOf(s) == {s[k].node_id : k \in 1..Len(s)}
PairOf(c) == {c.node_id_a, c.node_id_b}
CountPair(cands, x, y) == Cardinality({k \in 1..Len(cands) : PairOf(cands[k]) = {x, y}})

Detected == pc \in {"detected", "normalized"}

\* C1: on an input grouped by (doc_id, canonical_path) and sorted by validity
\* start inside each group, the result holds exactly one candidate for every
\* unordered pair of distinct nodes of one group with overlapping closed
\* intervals, and no other candidate.
C1_ExactlyOverlappingPairs ==
    (Detected /\ GroupedSorted(input)) =>
        /\ \A x, y \in IdsOf(input) :
              (x < y /\ KeyOf(NodeById(input, x)) = KeyOf(NodeById(input, y))
                     /\ ClosedOverlap(NodeById(input, x), NodeById(input, y)))
                 => CountPair(conflicts, x, y) = 1
        /\ \A k \in 1..Len(conflicts) :
              /\ conflicts[k].node_id_a # conflicts[k].node_id_b
              /\ PairOf(conflicts[k]) \subseteq IdsOf(input)
              /\ KeyOf(NodeById(input, conflicts[k].node_id_a))
                   = KeyOf(NodeById(input, conflicts[k].node_id_b))
              /\ ClosedOverlap(NodeById(input, conflicts[k].node_id_a),
                               NodeById(input, conflicts[k].node_id_b))
              /\ CountPair(conflicts, conflicts[k].node_id_a, conflicts[k].node_id_b) = 1

\* a sorted group of three in which the first node was evicted before the third
\* arrived, and two intervals that share a single day were paired
C1_Witness ==
    /\ Detected /\ GroupedSorted(input) /\ Len(input) = 3
    /\ KeyOf(input[1]) = KeyOf(input[3])
    /\ EndOf(input[1]) < StartOf(input[3])
    /\ EndOf(input[2]) = StartOf(input[3])
    /\ Len(conflicts) >= 1

\* The fixture of the overlap example: 2001-01-01 is date 1, 2009-06-01 date 2,
\* 2010-12-31 date 3; each flag agrees with its valid_to.
IsOverlapFixture(s) ==
    /\ Len(s) = 2
    /\ KeyOf(s[1]) = <<"d1", "art:5">> /\ KeyOf(s[2]) = <<"d1", "art:5">>
    /\ s[1].valid_from = 1 /\ s[1].valid_to = 3 /\ s[1].is_current_law = FALSE
    /\ s[2].valid_from = 2 /\ s[2].valid_to = Null /\ s[2].is_current_law = TRUE

\* C2 as claimed: the fixture yields exactly one conflict, of severity critical.
C2_FixtureCritical ==
    (Detected /\ IsOverlapFixture(input)) =>
        (Len(conflicts) = 1 /\ conflicts[1].severity = "critical")

\* C2 as amended: the fixture yields exactly one conflict, of severity warning
\* (version 1 is closed, so neither severity check holds).
C2_FixtureWarning ==
    (Detected /\ IsOverlapFixture(input)) =>
        (Len(conflicts) = 1 /\ conflicts[1].severity = "warning")

C2_Witness == Detected /\ IsOverlapFixture(input) /\ Len(conflicts) = 1

\* C3: a candidate is critical exactly when both nodes are flagged current law
\* or both have a null valid_to, and warning otherwise.
C3_SeverityRule ==
    Detected =>
        \A k \in 1..Len(conflicts) :
            LET a == NodeById(input, conflicts[k].node_id_a)
                b == NodeById(input, conflicts[k].node_id_b)
                crit == \/ (a.is_current_law /\ b.is_current_law)
                        \/ (a.valid_to = Null /\ b.valid_to = Null)
            IN  /\ crit => conflicts[k].severity = "critical"
                /\ ~crit => conflicts[k].severity = "warning"

\* flags and valid_to disagree, and each check alone makes a pair critical
C3_Witness ==
    /\ Detected /\ Len(input) = 3 /\ Len(conflicts) = 3
    /\ \E k \in 1..3 :
          LET a == NodeById(input, conflicts[k].node_id_a)
              b == NodeById(input, conflicts[k].node_id_b)
          IN  /\ a.is_current_law /\ b.is_current_law /\ a.valid_to # Null
              /\ conflicts[k].severity = "critical"
    /\ \E k \in 1..3 :
          LET a == NodeById(input, conflicts[k].node_id_a)
              b == NodeById(input, conflicts[k].node_id_b)
          IN  /\ ~a.is_current_law /\ a.valid_to = Null /\ b.valid_to = Null
              /\ conflicts[k].severity = "critical"
    /\ \E k \in 1..3 : conflicts[k].severity = "warning"

\* C4: whatever the order of the input, every candidate pairs two nodes of one
\* (doc_id, canonical_path) whose closed intervals overlap; a version that ends
\* the day before the other starts gives no conflict.
C4_OnlyOverlappingSameGroup ==
    Detected =>
        /\ \A k \in 1..Len(conflicts) :
              LET a == NodeById(input, conflicts[k].node_id_a)
                  b == NodeById(input, conflicts[k].node_id_b)
              IN  /\ KeyOf(a) = KeyOf(b)
                  /\ conflicts[k].doc_id = a.doc_id
                  /\ conflicts[k].canonical_path = a.canonical_path
                  /\ ClosedOverlap(a, b)
        /\ (Len(input) = 2 /\ (EndOf(input[1]) < StartOf(input[2])
                                \/ EndOf(input[2]) < StartOf(input[1])))
              => conflicts = <<>>

\* an input out of order inside its group and split by another group, with a
\* candidate emitted
C4_Witness ==
    /\ Detected /\ ~GroupedSorted(input) /\ Len(input) = 3
    /\ KeyOf(input[1]) = KeyOf(input[2]) /\ KeyOf(input[1]) # KeyOf(input[3])
    /\ StartOf(input[1]) > StartOf(input[2])
    /\ Len(conflicts) = 1

\* C5 as claimed: for two overlapping nodes of one group, detection followed by
\* _normalize_candidate gives exactly one pair, with node_id_a <= node_id_b, and
\* the run on the reversed sequence gives the same pair with the same severity.
Reverse(s) == [k \in 1..Len(s) |-> s[Len(s) + 1 - k]]
C5_SymmetricPair ==
    (/\ pc = "normalized" /\ Len(input) = 2
     /\ KeyOf(input[1]) = KeyOf(input[2]) /\ ClosedOverlap(input[1], input[2])) =>
        /\ ~raised
        /\ Len(normalized) = 1
        /\ normalized[1].node_id_a <= normalized[1].node_id_b
        /\ PairOf(normalized[1]) = IdsOf(input)
        /\ ~AnyRaises(build, detect_temporal_conflicts(Reverse(input)))
        /\ normalized = NormalizeAll(build, detect_temporal_conflicts(Reverse(input)))

\* C6 as claimed: conflict_events never holds two events for one unordered pair
\* of nodes, every stored event has node_id_a <= node_id_b, and a second run
\* over the unchanged nodes creates no event.
C6_NoDuplicateEvents ==
    /\ \A i, j \in 1..Len(events) : i # j => PairOf(events[i]) # PairOf(events[j])
    /\ \A i \in 1..Len(events) : events[i].node_id_a <= events[i].node_id_b
    /\ runs >= 2 => created = 0

\* C27 as claimed: a run of cmd_detect_conflicts hands the detector the stored
\* nodes grouped by (doc_id, canonical_path) and, inside each group, in
\* non-decreasing order of valid_from with null first, and afterwards every pair
\* of stored nodes of one key with overlapping validity has a conflict event.
HasEvent(a, b) == \E k \in 1..Len(events) : PairOf(events[k]) = {a.node_id, b.node_id}
C27_SortedAndComplete ==
    runs >= 1 =>
        /\ GroupedSorted(input)
        /\ \A a, b \in nodes_tbl :
              (a.node_id # b.node_id /\ KeyOf(a) = KeyOf(b) /\ ClosedOverlap(a, b))
                  => HasEvent(a, b)

----------------------------------------------------------------------------
(* Vocabulary of the claims about UrnResolver.resolve and _build_urn *)

Combined == Strip(match_text \o <<" ">> \o raw_snippet)
ExplicitMatches == \E k \in 1..Len(match_text) : match_text[k] = "urn:"
DynamicMatches == _match_dynamic_law(Combined) # None_
AliasMatches == _match_alias(Combined) # None_
ContextualMatches == ART_PATTERN_search(match_text) # None_ /\ Truthy(document_urn)

IsPrefix(p, s) == Len(p) <= Len(s) /\ SubSeq(s, 1, Len(p)) = p

\* C7: resolve returns the result of the first strategy that matches, in the
\* order explicit, dynamic law parsing, alias, contextual, with the confidence
\* and the method of that strategy and a URN built on that strategy's base,
\* and (None, 0.0, unresolved) when no strategy matches.
C7_PriorityChain ==
    rpc = "done" =>
        IF ExplicitMatches
        THEN result.confidence = 100 /\ result.method = "explicit"
        ELSE IF DynamicMatches
        THEN /\ result.confidence = 85 /\ result.method = "dynamic_parsing"
             /\ IsPrefix(_match_dynamic_law(Combined), result.urn)
        ELSE IF AliasMatches
        THEN /\ result.confidence = 80 /\ result.method = "alias"
             /\ IsPrefix(_match_alias(Combined), result.urn)
        ELSE IF ContextualMatches
        THEN /\ result.confidence = 60 /\ result.method = "contextual"
             /\ IsPrefix(document_urn, result.urn)
        ELSE result = [urn |-> None_, confidence |-> 0, method |-> "unresolved"]

\* an alias and the contextual fallback both match, and the alias is returned
C7_Witness ==
    /\ rpc = "done"
    /\ ~ExplicitMatches /\ ~DynamicMatches /\ AliasMatches /\ ContextualMatches
    /\ result.method = "alias"

\* C8 as claimed: when match_text contains 'urn:', resolve returns match_text
\* itself, unchanged, with confidence 1.0 and method explicit.
C8_ExplicitVerbatim ==
    (rpc = "done" /\ ExplicitMatches) =>
        result = [urn |-> match_text, confidence |-> 100, method |-> "explicit"]

\* the digits of the year of a synthetic URN urn:nir:stato:<type>:<year>;<number>
RECURSIVE SemicolonFrom(_, _)
SemicolonFrom(u, k) ==
    IF k > Len(u) THEN 0 ELSE IF u[k] = ";" THEN k ELSE SemicolonFrom(u, k + 1)
UrnYear(u) == SubSeq(u, 5, SemicolonFrom(u, 5) - 1)

CitedYear == SubSeq(match_text, 6, Len(match_text))
TwoDigitValue(y) == 10 * DigitVal(y[1]) + DigitVal(y[2])

\* C9 as claimed: in dynamic law parsing a two-digit year yy becomes 20yy when
\* yy < 50 and 19yy when yy >= 50, a four-digit year is left unchanged, and the
\* year in the synthetic URN always has four digits.
C9_YearNormalised ==
    (rpc = "done" /\ result.method = "dynamic_parsing") =>
        /\ Len(UrnYear(result.urn)) = 4
        /\ (match_text \in YearTexts /\ Len(CitedYear) = 2) =>
               UrnYear(result.urn) =
                  (IF TwoDigitValue(CitedYear) < 50 THEN <<"2", "0">> ELSE <<"1", "9">>)
                     \o CitedYear
        /\ (match_text \in YearTexts /\ Len(CitedYear) = 4) =>
               UrnYear(result.urn) = CitedYear

Present(component) == component[2] # None_ /\ component[2] # <<>>
ComponentsOf(a) ==
    SelectSeq(<< <<"art", a.article>>, <<"com", a.comma>>,
                 <<"let", a.letter>>, <<"num", a.number>> >>, Present)
RECURSIVE HyphenJoined(_)
HyphenJoined(cs) ==
    IF cs = <<>> THEN <<>>
    ELSE <<cs[1][1]>> \o cs[1][2]
           \o (IF Len(cs) = 1 THEN <<>> ELSE <<"-">> \o HyphenJoined(Tail(cs)))

\* C10 as claimed: _build_urn returns the base URN followed by '#' and the
\* present components in the order article, comma, letter, number, with the
\* prefixes art, com, let, num, joined by hyphens; with no component present it
\* returns the base URN unchanged.
C10_HyphenFragment ==
    rpc = "built" =>
        urn_built =
            IF ComponentsOf(urn_args) = <<>> THEN urn_args.base_urn
            ELSE urn_args.base_urn \o <<"#">> \o HyphenJoined(ComponentsOf(urn_args))

\* the URN type the specification gives for each spelling of an act type
ClaimedType(tipo) ==
    CASE tipo \in {"legge", "l."} -> "legge"
      [] tipo \in {"d.lgs.", "decreto legislativo"} -> "decreto.legislativo"
      [] tipo \in {"d.l.", "decreto legge"} -> "decreto.legge"
      [] tipo = "d.p.r." -> "decreto.presidente.repubblica"

\* C30 as claimed: the dynamic law strategy turns a citation "<type> N/YYYY" into
\* urn:nir:stato:<urn type>:YYYY;N where legge and l. give legge, d.lgs. and
\* decreto legislativo give decreto.legislativo, d.l. and decreto legge give
\* decreto.legge, and d.p.r. gives decreto.presidente.repubblica.
C30_TypeNormalised ==
    (rpc = "done" /\ DYNAMIC_LAW_PATTERN_search(Combined) # None_) =>
        LET m == DYNAMIC_LAW_PATTERN_search(Combined)
            urn == <<"urn:", "nir:stato:", ClaimedType(m[1]), ":">>
                       \o NormalizeYear(m[3]) \o <<";">> \o m[2]
        IN  /\ _match_dynamic_law(Combined) = urn
            /\ result.urn = urn

----------------------------------------------------------------------------
(* Claims about the resolver's cache *)

\* C11: a call on the resolver of document D never returns a contextual URN
\* built on another document's document_urn, and two calls with the same
\* (match_text, raw_snippet, document_urn) return the same triple, whatever
\* the interleaving of calls and whatever the cache holds.
C11_NoCrossDocumentLeak ==
    /\ \A c \in calls :
          c.value.method = "contextual" =>
             /\ Truthy(c.doc)
             /\ IsPrefix(c.doc, c.value.urn)
             /\ \A d \in CallDocs \ {None_, c.doc} : ~IsPrefix(d, c.value.urn)
    /\ \A c1, c2 \in calls :
          (c1.doc = c2.doc /\ c1.mt = c2.mt /\ c1.ctx = c2.ctx) => c1.value = c2.value

\* the same text resolved contextually for two documents, one call of it
\* answered by the cache
C11_Witness ==
    \E c1, c2 \in calls :
       /\ c1.mt = c2.mt /\ c1.ctx = c2.ctx
       /\ Truthy(c1.doc) /\ Truthy(c2.doc) /\ c1.doc # c2.doc
       /\ c1.value.method = "contextual" /\ c2.value.method = "contextual"
       /\ \E c3 \in calls : c3.hit /\ c3.mt = c1.mt /\ c3.ctx = c1.ctx

----------------------------------------------------------------------------
(* Claims about cmd_parse *)

SameKey(c1, c2) ==
    /\ c1.doc_id = c2.doc_id
    /\ c1.version_id = c2.version_id
    /\ c1.canonical_path = c2.canonical_path

\* C12: the node_id is determined by (doc_id, version_id, canonical_path) and by
\* nothing else: two computations for the same triple give the same node_id
\* whatever the text and the raw file, and two computations for different
\* triples, in particular one path under two version_ids, give different ids.
C12_NodeIdentity ==
    \A c1, c2 \in computed : SameKey(c1, c2) <=> (c1.node_id = c2.node_id)

\* one structural position persisted again with corrected text, and one path
\* persisted under two version_ids
C12_Witness ==
    /\ \E c1, c2 \in computed : SameKey(c1, c2) /\ c1.text_raw # c2.text_raw
    /\ \E c1, c2 \in computed :
          /\ c1.doc_id = c2.doc_id /\ c1.canonical_path = c2.canonical_path
          /\ c1.version_id # c2.version_id

\* a stored version of the file's (doc_id, version_tag) has another checksum_text
ChecksumConflict(raw_id) ==
    \E v \in versions :
       /\ v.doc_id = sha256_text(raw_files[raw_id].canonical_doc)
       /\ v.version_tag = VersionTagOf(raw_files[raw_id], raw_id)
       /\ v.checksum_text # sha256_text(TextConcat(raw_files[raw_id].nodes))

\* C20 as claimed: parsing a file whose (doc_id, version_tag) is stored with a
\* different checksum_text leaves the stored versions and nodes unchanged and
\* puts the raw file in the state "conflict".
C20_ConflictNeverOverwrites ==
    [][\A raw_id \in 1..Len(raw_files) :
          (/\ raw_files[raw_id].status = "new"
           /\ raw_files'[raw_id].status # "new"
           /\ ChecksumConflict(raw_id)) =>
             /\ raw_files'[raw_id].status = "conflict"
             /\ versions' = versions
             /\ node_rows' = node_rows]_vars

VersionOf(table, row) == CHOOSE v \in table : v.version_id = row.version_id

\* C28 as claimed: every node a parse stores carries the valid_from and the
\* valid_to of its DocumentVersion, and its is_current_law is true exactly when
\* the valid_to of that version is null.
C28_NodesCarryValidity ==
    [][\A row \in node_rows' \ node_rows :
          /\ row.valid_from = VersionOf(versions', row).valid_from
          /\ row.valid_to = VersionOf(versions', row).valid_to
          /\ row.is_current_law = (VersionOf(versions', row).valid_to = Null)]_vars

\* NextNew(raw_id) is the whole guard of a turn of the loop: while it holds for
\* some file the command has not ended
Settled(f) == f.status \in {"parsed", "conflict", "error"}
StoredFor(raw_id) == {v \in versions : v.source_raw_id = raw_id}

\* C29: cmd_parse ends only when no raw file is left in the state "new", so every
\* file that was new is then parsed, conflict or error; a failure while handling
\* one file undoes what that file had written, marks that file alone as error
\* with the error text, and the files after it are still handled.
C29_EveryFileSettled ==
    /\ (\E raw_id \in 1..Len(raw_files) : raw_files[raw_id].status = "new")
          => \E raw_id \in 1..Len(raw_files) : NextNew(raw_id)
    /\ \A raw_id \in 1..Len(raw_files) :
          /\ raw_files[raw_id].status = "new" \/ Settled(raw_files[raw_id])
          /\ raw_files[raw_id].status = "error" =>
                Truthy(raw_files[raw_id].error) /\ StoredFor(raw_id) = {}
          /\ raw_files[raw_id].status \in {"new", "parsed"} =>
                raw_files[raw_id].error = None_
    /\ \A row \in node_rows : \E v \in versions :
          /\ v.version_id = row.version_id
          /\ raw_files[v.source_raw_id].status = "parsed"

\* the first of two files failed and is marked with the error text, nothing of it
\* is stored, and the second file was parsed and stored
C29_Witness ==
    /\ Len(raw_files) = 2
    /\ raw_files[1].status = "error" /\ Truthy(raw_files[1].error)
    /\ raw_files[2].status = "parsed"
    /\ versions # {} /\ \A v \in versions : v.source_raw_id = 2
    /\ node_rows # {}

----------------------------------------------------------------------------
(* Claims about the hierarchy breadcrumb *)

\* the label the fixed table gives to a prefix
TableLabel(prefix) ==
    CASE prefix = "art" -> "Art."
      [] prefix \in {"c", "comma"} -> "Comma"
      [] prefix = "lett" -> "lett."
      [] prefix = "num" -> "n."
      [] prefix = "capo" -> "Capo"
      [] prefix = "tit" -> "Titolo"

IsTablePath(path) ==
    /\ Truthy(path)
    /\ SplitSlash(path, <<>>) # <<>>
    /\ \A k \in 1..Len(SplitSlash(path, <<>>)) :
          LET seg == SplitSlash(path, <<>>)[k]
          IN  Len(seg) = 3 /\ seg[1] \in {"art", "c", "comma", "lett", "num", "capo", "tit"}

RECURSIVE Breadcrumb(_)
Breadcrumb(segs) ==
    IF segs = <<>> THEN <<>>
    ELSE <<TableLabel(segs[1][1]), " ", segs[1][3]>>
           \o (IF Len(segs) = 1 THEN <<>> ELSE <<" > ">> \o Breadcrumb(Tail(segs)))

\* C13 as claimed: the breadcrumb of a path of article, comma, letter, number,
\* chapter and title segments is the labels of the segments joined with " > ";
\* the breadcrumb of art:5/c:2/lett:a is "Art. 5 > Comma 2 > lett. a".
C13_Breadcrumb ==
    (hs_pc = "done" /\ IsTablePath(hs_path)) =>
        hs_result = Breadcrumb(SplitSlash(hs_path, <<>>))

----------------------------------------------------------------------------
(* Claims about the Akoma Ntoso parser *)

TextOf(nd) == {nd.text_content[k] : k \in DOMAIN nd.text_content}
\* the text runs that lie inside element j: its text, and the text and tail
\* of each of its descendants
RunsInside(t, j) ==
    {t[j].text[k] : k \in DOMAIN t[j].text}
      \cup UNION {{t[d].text[k] : k \in DOMAIN t[d].text}
                    \cup {t[d].tail[k] : k \in DOMAIN t[d].tail} : d \in Descendants(t, j)}
IsBoundary(b, tag) ==
    tag \in DEFAULT_TAG_CONFIG(b).structural_tags \cup DEFAULT_TAG_CONFIG(b).container_tags

\* C14: the text of a node the Akoma Ntoso parser emitted holds no text that
\* lies inside a descendant element with a structural or container tag
C14_NoBoundaryText ==
    parsed.mode = "parse" =>
        \A k \in DOMAIN parsed.nodes :
            \A j \in Descendants(tree, parsed.nodes[k].elem) :
                IsBoundary(build, tree[j].tag) =>
                    TextOf(parsed.nodes[k]) \cap RunsInside(tree, j) = {}

\* C15: when no element of the tree has a metadata tag, every text run of the
\* tree, tails included, is in the text of a node AkomaNtosoParser.parse
\* (src/app) emitted
C15_NoTextLoss ==
    (/\ parsed.mode = "parse"
     /\ build = "app"
     /\ \A i \in DOMAIN tree : tree[i].tag \notin DEFAULT_TAG_CONFIG(build).metadata_tags)
    => \A run \in RunsInside(tree, 1) :
          \E k \in DOMAIN parsed.nodes : run \in TextOf(parsed.nodes[k])

PathTextPairs(nodes) ==
    [k \in DOMAIN nodes |-> <<nodes[k].canonical_path, nodes[k].text_content>>]
Occurrences(seq, x) == Cardinality({k \in DOMAIN seq : seq[k] = x})
SameMultiset(a, b) ==
    \A x \in {a[k] : k \in DOMAIN a} \cup {b[k] : k \in DOMAIN b} :
        Occurrences(a, x) = Occurrences(b, x)

\* C16: the streaming parse of a document yields the same multiset of
\* (canonical_path, text) pairs as its in-memory parse
C16_ModeEquivalence ==
    parsed.mode = "parse_iter" =>
        SameMultiset(PathTextPairs(parsed.nodes), PathTextPairs(parse(build, tree)))

TagCategories == {"structural_tags", "container_tags", "inline_tags", "metadata_tags"}
\* C17: the four tag sets of DEFAULT_TAG_CONFIG are pairwise disjoint
C17_DisjointCategories ==
    build \in {"app", "kb"} =>
        \A c1, c2 \in TagCategories :
            c1 # c2 => DEFAULT_TAG_CONFIG(build)[c1] \cap DEFAULT_TAG_CONFIG(build)[c2] = {}

----------------------------------------------------------------------------
(* Claims about the legacy dialect and about canonical paths *)

Words(text) == {text[k] : k \in DOMAIN text} \ {" "}

\* C18: an article's text is never emitted both in the article node and in a
\* comma-1 node synthesized from the same articolo element
C18_OnePolicy ==
    parsed.mode \in {"parse_normattiva", "parse_normattiva_iter"} =>
        \A k, l \in DOMAIN parsed.nodes :
            (/\ parsed.nodes[k].elem = parsed.nodes[l].elem
             /\ parsed.nodes[k].node_type = "articolo"
             /\ parsed.nodes[l].node_type = "comma")
            => Words(parsed.nodes[k].text_clean) \cap Words(parsed.nodes[l].text_clean) = {}

\* C19: no two nodes of the list one parse produced have the same canonical_path
C19_UniquePaths ==
    parsed.mode # "none" =>
        \A k, l \in DOMAIN parsed.nodes :
            parsed.nodes[k].canonical_path = parsed.nodes[l].canonical_path => k = l

----------------------------------------------------------------------------
(* Claims about metadata subtrees *)

IsMetadata(b, tag) == tag \in DEFAULT_TAG_CONFIG(b).metadata_tags
\* the elements of the subtrees rooted at a metadata-tagged element
InMetadata(b, t) ==
    {j \in DOMAIN t : \E m \in AncestorsOrSelf(t, j) : IsMetadata(b, t[m].tag)}

\* C26: no node is emitted for an element inside a metadata subtree, and no
\* text of such a subtree is in the text of an emitted node, in either mode
C26_MetadataSkipped ==
    parsed.mode \in {"parse", "parse_iter"} =>
        \A k \in DOMAIN parsed.nodes :
            /\ parsed.nodes[k].elem \notin InMetadata(build, tree)
            /\ \A m \in DOMAIN tree :
                  IsMetadata(build, tree[m].tag) =>
                      TextOf(parsed.nodes[k]) \cap RunsInside(tree, m) = {}

----------------------------------------------------------------------------
(* Claims about the paths of the legacy dialect *)

GivenId(e, default) == IF tree[e].eid = <<>> THEN <<default>> ELSE tree[e].eid
\* the segment prefix, the label prefix and the default id of a node type
SegmentPrefix(node_type) ==
    CASE node_type = "articolo" -> "art" [] node_type = "comma" -> "c"
      [] node_type = "lettera" -> "lett" [] node_type = "numero" -> "num"
      [] node_type = "allegato" -> "allegato" [] node_type = "tabella" -> "tabella"
LabelPrefix(node_type) ==
    CASE node_type = "articolo" -> "Art." [] node_type = "comma" -> "comma"
      [] node_type = "lettera" -> "lett." [] node_type = "numero" -> "num."
      [] node_type = "allegato" -> "Allegato" [] node_type = "tabella" -> "Tabella"
DefaultId(node_type) ==
    CASE node_type = "lettera" -> "a" [] node_type = "allegato" -> "A" [] OTHER -> "1"
\* the path claimed for the node built from element e
RECURSIVE ClaimedPath(_)
ClaimedPath(e) ==
    LET seg == <<SegmentPrefix(tree[e].tag), ":">> \o GivenId(e, DefaultId(tree[e].tag))
    IN  IF tree[e].tag \in {"articolo", "allegato"} THEN seg
        ELSE ClaimedPath(tree[e].parent) \o <<"/">> \o seg
\* the implicit comma 1 is built from the articolo element itself
IsImplicitComma(nd) == nd.node_type = "comma" /\ tree[nd.elem].tag = "articolo"
ParentPath(path) ==
    SubSeq(path, 1, CHOOSE k \in 0..Len(path) :
                        /\ k = 0 \/ path[k + 1] = "/"
                        /\ \A j \in (k + 2)..Len(path) : path[j] # "/")

\* C25: every node of the legacy parser has the path of its parent followed by
\* "/" and its own segment and the label of its type with its id unchanged,
\* and the node of the parent path of every child node is emitted too
C25_HierarchyPaths ==
    (parsed.mode = "_parse_fragment" /\ build = "kb") =>
        \A k \in DOMAIN parsed.nodes :
            LET nd == parsed.nodes[k]
            IN  /\ IF IsImplicitComma(nd)
                   THEN /\ nd.canonical_path = ClaimedPath(nd.elem) \o <<"/", "c", ":", "1">>
                        /\ nd.label = <<"comma", " ", "1">>
                   ELSE /\ nd.canonical_path = ClaimedPath(nd.elem)
                        /\ nd.label = <<LabelPrefix(nd.node_type), " ">>
                                         \o GivenId(nd.elem, DefaultId(nd.node_type))
                /\ nd.node_type \in {"comma", "lettera", "numero", "tabella"} =>
                      \E l \in DOMAIN parsed.nodes :
                          parsed.nodes[l].canonical_path = ParentPath(nd.canonical_path)

\* an articolo with a suffixed id down to a numero, ids with suffixes throughout
C25_Witness ==
    /\ parsed.mode = "_parse_fragment"
    /\ build = "kb"
    /\ \E k \in DOMAIN parsed.nodes :
          parsed.nodes[k].canonical_path =
              <<"art", ":", "1", "-bis", "/", "c", ":", "1", "-bis", "/",
                "lett", ":", "1", "-bis", "/", "num", ":", "1", "-bis">>
    /\ \E k \in DOMAIN parsed.nodes : parsed.nodes[k].label = <<"Art.", " ", "1", "-bis">>

----------------------------------------------------------------------------
(* Claims about the raw file store *)

CalledSha256s(cs) == {cs[k].data.sha256 : k \in 1..Len(cs)}
StoredWith(tbl, sha) == {k \in 1..Len(tbl) : tbl[k].sha256 = sha}

----------------------------------------------------------------------------
(* Claims about references_resolved *)

RowsWithKey(tbl, key) == {k \in 1..Len(tbl) : ResolvedKey(tbl[k]) = key}
ResolvedRow(b, ref) == IF b = "app" THEN Resolved_app(ref) ELSE Resolved_kb(ref)

\* C21: whatever the number of runs of cmd_resolve_references over the same
\* extracted references, references_resolved holds at most one row per
\* (source_node_id, target_canonical_node, relation_type), and a run that
\* resolves a triple whose row is stored leaves that one row in place, with what
\* the run resolved, and adds no second one.
C21_OneRowPerKey ==
    [][pc' \in {"committed", "failed"} =>
          /\ \A k \in 1..Len(resolved_tbl') :
                Cardinality(RowsWithKey(resolved_tbl', ResolvedKey(resolved_tbl'[k]))) = 1
          /\ \A i \in 1..Len(extracted_tbl) :
                LET row == ResolvedRow(build, extracted_tbl[i])
                IN  RowsWithKey(resolved_tbl, ResolvedKey(row)) # {} =>
                      /\ Cardinality(RowsWithKey(resolved_tbl', ResolvedKey(row))) = 1
                      /\ \A k \in RowsWithKey(resolved_tbl', ResolvedKey(row)) :
                            resolved_tbl'[k].target_node_id = row.target_node_id]_vars

\* the second run found the target node the first run had not: it inserted no
\* row and updated the stored one, which now points at the node
C21_Witness ==
    /\ Len(resolve_log) = 2
    /\ resolve_log[1].inserted >= 1
    /\ resolve_log[2].inserted = 0 /\ resolve_log[2].updated >= 1
    /\ Len(resolved_tbl) = resolve_log[1].inserted
    /\ \E k \in 1..Len(resolved_tbl) : resolved_tbl[k].target_node_id # Null

----------------------------------------------------------------------------
(* Claims about extract_references *)

Extracted == candidates # NoCandidates
Cites(phrase) == HasAlias(ref_text, phrase)
Targets == {candidates[k].target_canonical_doc : k \in 1..Len(candidates)}

\* C23 as claimed: a text that holds "d.lgs. 74/2000", "DPR 917/1986" or
\* "legge 212/2000" yields a candidate with the target dlgs:74:2000,
\* dpr:917:1986 or l:212:2000 respectively, and the relation_type of every
\* candidate is CITES, AMENDS, REPEALS or DEROGATES.
C23_ActTargets ==
    Extracted =>
        /\ Cites(<<"d.lgs.", " ", "7", "4", "/", "2", "0", "0", "0">>) =>
              <<"dlgs", ":", "7", "4", ":", "2", "0", "0", "0">> \in Targets
        /\ Cites(<<"DPR", " ", "9", "1", "7", "/", "1", "9", "8", "6">>) =>
              <<"dpr", ":", "9", "1", "7", ":", "1", "9", "8", "6">> \in Targets
        /\ Cites(<<"legge", " ", "2", "1", "2", "/", "2", "0", "0", "0">>) =>
              <<"l", ":", "2", "1", "2", ":", "2", "0", "0", "0">> \in Targets
        /\ \A k \in 1..Len(candidates) :
              candidates[k].relation_type \in {"CITES", "AMENDS", "REPEALS", "DEROGATES"}

\* C24 as claimed: every candidate extract_references returns, of any of its
\* three passes and whatever the text, has a raw_snippet that is not empty.
C24_SnippetNeverEmpty ==
    Extracted => \A k \in 1..Len(candidates) : candidates[k].raw_snippet # <<>>

====
